---- MODULE Spec2Model ----
(***************************************************************************)
(* DevDeploy build orchestration: the Build store, the pipeline executor   *)
(* (simulate_build), BuildService, the manual trigger endpoint, the        *)
(* periodic queue check, the GitHub webhook endpoint with its background   *)
(* processing and retry, and the WebSocket connection manager.             *)
(*                                                                         *)
(* Conventions.  Rows of a table are the elements of a sequence, the row   *)
(* id is the index.  NULL columns are 0 (ids, timestamps) or "none"        *)
(* (strings).  A timestamp column holds the ordinal of the assignment of   *)
(* datetime.utcnow() to it: 0 is NULL, n is the n-th value written to that *)
(* column of that row.  A function body is modelled as written: a name     *)
(* that is bound nowhere raises when the line is reached.                  *)
(***************************************************************************)
EXTENDS Integers, Sequences, FiniteSets, Bags, TLC

VARIABLES
    builds,      \* table builds
    buildLogs,   \* table build_logs, grouped by build_id: buildLogs[b] is the rows of build b in insertion order
    executors,   \* bag of running simulate_build / run_build coroutines
    queueCheck,  \* the in-flight check_queued_builds task: its list of builds
    allocs,      \* BuildService.create_build calls between number generation and flush
    events,      \* table webhook_events
    tasks,       \* FastAPI background tasks not yet run
    resp,        \* outcome of the last request handled
    manager,     \* the ConnectionManager: active_connections and user_connections
    sockets,     \* the WebSocket objects handed to handle_connection
    publishers   \* the broadcast_to_project / broadcast_to_user calls made so far

storeVars == <<builds, buildLogs, executors, queueCheck, allocs, events, tasks, resp>>
socketVars == <<manager, sockets, publishers>>

vars == <<builds, buildLogs, executors, queueCheck, allocs, events, tasks, resp,
          manager, sockets, publishers>>

----------------------------------------------------------------------------
(* Bounds *)
LifeBuilds == 1
CapBuilds == 4
MaxAllocs == 2
MaxDeliveries == 2
MaxRetryRequests == 2
WebhookBuilds == 1
MaxStamp == 2
ReconBuilds == 2
ExecBuilds == 2
NumberBuilds == 6
QueueBuilds == 4
GateBuilds == 2
MaxSockets == 3
MaxPublishes == 2
TopicSockets == 2

(* Program constants *)
MAX_CONCURRENT_BUILDS == 3
BUILD_TIMEOUT_SECONDS == 1800
max_retries == 3
TaskMaxRetries == 3

NULL == 0
None == "none"

(* build_number NULL *)
NoNumber == [abbr |-> <<>>, digits |-> <<>>]

Terminal == {"success", "failed", "cancelled", "timeout"}
NonTerminal == {"pending", "running"}

stages == <<"clone", "install", "test", "build", "deploy">>
NumStages == Len(stages)

----------------------------------------------------------------------------
(* The projects table is owned by an external collaborator and is read     *)
(* only here.  repository_url is a sequence of path segments so that the   *)
(* ILIKE '%url%' filter is a real substring test.                          *)
projects ==
    <<[name |-> <<"a", "p", "p", "s">>, repository_url |-> <<"acme", "app">>, branch |-> <<"main">>,
       status |-> "active", owner_id |-> 1, webhook_secret |-> "S1",
       webhook_enabled |-> TRUE],
      [name |-> <<"l", "i", "b">>, repository_url |-> <<"acme", "lib">>, branch |-> <<"main">>,
       status |-> "active", owner_id |-> 1, webhook_secret |-> None,
       webhook_enabled |-> TRUE],
      [name |-> <<"o", "l">>, repository_url |-> <<"acme", "old">>, branch |-> <<"main">>,
       status |-> "archived", owner_id |-> 2, webhook_secret |-> "S3",
       webhook_enabled |-> TRUE]>>

ProjectIds == DOMAIN projects
Users == {1, 2}

----------------------------------------------------------------------------
(* Helpers on the builds table *)
BuildIds == DOMAIN builds

Running == {b \in BuildIds : builds[b].status = "running"}

NewBuild(p, trig, commit, number) ==
    [project_id |-> p, status |-> "pending", trigger_type |-> trig,
     commit_hash |-> commit, build_number |-> number,
     started_at |-> NULL, completed_at |-> NULL,
     logs |-> <<>>, error_message |-> None, external_url |-> None]

(* local `logs` list of simulate_build after k whole stages have passed *)
RECURSIVE ProgressEntries(_, _, _)
ProgressEntries(name, duration, i) ==
    IF i >= duration THEN <<>>
    ELSE (IF i % 2 = 0
          THEN <<[stage |-> name, kind |-> "progress",
                  pct |-> ((i + 1) * 100) \div duration]>>
          ELSE <<>>) \o ProgressEntries(name, duration, i + 1)

durations == <<2, 5, 10, 8, 5>>

StageEntries(k) ==
    <<[stage |-> stages[k], kind |-> "start", pct |-> 0]>>
    \o ProgressEntries(stages[k], durations[k], 0)
    \o <<[stage |-> stages[k], kind |-> "completed", pct |-> 100]>>

RECURSIVE LocalLogs(_)
LocalLogs(k) == IF k = 0 THEN <<>> ELSE LocalLogs(k - 1) \o StageEntries(k)

(* seconds simulate_build has slept when stage k is about to start: one    *)
(* asyncio.sleep(1) per unit of duration of every earlier stage            *)
RECURSIVE Elapsed(_)
Elapsed(k) == IF k <= 1 THEN 0 ELSE Elapsed(k - 1) + durations[k - 1]

(* values of settings.BUILD_TIMEOUT_SECONDS: the default, and a value read *)
(* from the environment or .env                                            *)
TimeoutSettings == {BUILD_TIMEOUT_SECONDS, 10}

----------------------------------------------------------------------------
(* The connection manager.  A dict maps a key to a list (projects) or a    *)
(* set (users) of WebSocket objects; a key that is not in the dict has     *)
(* present = FALSE.                                                        *)
SocketIds == 1..MaxSockets
Topics == ProjectIds \cup Users

NoList == [present |-> FALSE, list |-> <<>>]
NoSet == [present |-> FALSE, set |-> {}]

(* state: new (not yet connected), open, gone (the peer has left and the   *)
(* handler has not yet seen it), done (handle_connection has returned);    *)
(* received: the messages delivered to the peer; since: the number of      *)
(* broadcasts made before the socket connected                             *)
NewSocket ==
    [state |-> "new", project |-> NULL, user |-> NULL, received |-> {}, since |-> 0]

Range(seq) == {seq[i] : i \in DOMAIN seq}

(* list.remove(x) for a list without duplicates *)
Remove(seq, x) == SelectSeq(seq, LAMBDA y : y # x)

----------------------------------------------------------------------------
Init ==
    /\ builds = <<>>
    /\ buildLogs = <<>>
    /\ executors = EmptyBag
    /\ queueCheck = <<>>
    /\ allocs = EmptyBag
    /\ events = <<>>
    /\ tasks = EmptyBag
    /\ resp = [op |-> "none", code |-> "none", id |-> NULL, pre |-> None]
    /\ manager = [active_connections |-> [p \in Topics |-> NoList],
                  user_connections |-> [u \in Topics |-> NoSet]]
    /\ sockets = [w \in SocketIds |-> NewSocket]
    /\ publishers = <<>>

Coroutine(b, kind) == [build |-> b, kind |-> kind, pc |-> 0]

(* trigger_build inserting the row with status running *)
TriggerBuild_InsertsRunning(p, user, commit, maxb) ==
    /\ Len(builds) < maxb
    /\ IF p \notin ProjectIds \/ projects[p].owner_id # user
       THEN /\ resp' = [op |-> "trigger", code |-> "404", id |-> NULL, pre |-> None]
            /\ UNCHANGED <<builds, buildLogs, executors>>
       ELSE IF projects[p].status = "archived"
       THEN /\ resp' = [op |-> "trigger", code |-> "400", id |-> NULL, pre |-> None]
            /\ UNCHANGED <<builds, buildLogs, executors>>
       ELSE /\ builds' = Append(builds,
                            [NewBuild(p, None, commit, NoNumber) EXCEPT !.status = "running"])
            /\ executors' = executors
                              (+) SetToBag({Coroutine(Len(builds) + 1, "thread")})
                              (+) SetToBag({Coroutine(Len(builds) + 1, "task")})
            /\ buildLogs' = Append(buildLogs, <<>>)
            /\ resp' = [op |-> "trigger", code |-> "200", id |-> Len(builds) + 1, pre |-> None]
    /\ UNCHANGED <<queueCheck, allocs, events, tasks, socketVars>>

(* the trigger endpoint without the check of builds.py:36 *)
TriggerBuild_NoArchivedCheck(p, user, commit, maxb) ==
    /\ Len(builds) < maxb
    /\ IF p \notin ProjectIds \/ projects[p].owner_id # user
       THEN /\ resp' = [op |-> "trigger", code |-> "404", id |-> NULL, pre |-> None]
            /\ UNCHANGED <<builds, buildLogs, executors>>
       ELSE /\ builds' = Append(builds, NewBuild(p, None, commit, NoNumber))
            /\ executors' = executors
                              (+) SetToBag({Coroutine(Len(builds) + 1, "thread")})
                              (+) SetToBag({Coroutine(Len(builds) + 1, "task")})
            /\ buildLogs' = Append(buildLogs, <<>>)
            /\ resp' = [op |-> "trigger", code |-> "200", id |-> Len(builds) + 1, pre |-> None]
    /\ UNCHANGED <<queueCheck, allocs, events, tasks, socketVars>>

(* POST /projects/{project_id}/builds: api create_build.  trigger_build    *)
(* inserts the pending row and starts a thread running simulate_build      *)
(* (start_build_process); the endpoint then adds simulate_build for the    *)
(* same build as a background task.                                        *)
TriggerBuild(p, user, commit, maxb) ==
    /\ Len(builds) < maxb
    /\ IF p \notin ProjectIds \/ projects[p].owner_id # user
       THEN /\ resp' = [op |-> "trigger", code |-> "404", id |-> NULL, pre |-> None]
            /\ UNCHANGED <<builds, buildLogs, executors>>
       ELSE IF projects[p].status = "archived"
       THEN /\ resp' = [op |-> "trigger", code |-> "400", id |-> NULL, pre |-> None]
            /\ UNCHANGED <<builds, buildLogs, executors>>
       ELSE /\ builds' = Append(builds, NewBuild(p, None, commit, NoNumber))
            /\ executors' = executors
                              (+) SetToBag({Coroutine(Len(builds) + 1, "thread")})
                              (+) SetToBag({Coroutine(Len(builds) + 1, "task")})
            /\ buildLogs' = Append(buildLogs, <<>>)
            /\ resp' = [op |-> "trigger", code |-> "200", id |-> Len(builds) + 1, pre |-> None]
    /\ UNCHANGED <<queueCheck, allocs, events, tasks, socketVars>>

(* simulate_build lines 28-36: load the build, set it running, commit *)
ExecBegin(e) ==
    /\ BagIn(e, executors)
    /\ e.pc = 0
    /\ builds' = [builds EXCEPT ![e.build].status = "running",
                                ![e.build].started_at = @ + 1]
    /\ executors' = (executors (-) SetToBag({e})) (+) SetToBag({[e EXCEPT !.pc = 1]})
    /\ UNCHANGED <<buildLogs, queueCheck, allocs, events, tasks, resp, socketVars>>

LogEntry(stage, kind) == [stage |-> stage, kind |-> kind, pct |-> 0]

(* simulate_build lines 48-87: one iteration of the stage loop, and the    *)
(* success epilogue after the last one; `ok` is the outcome of the         *)
(* random.random() > success_rate draw.  Every commit of the iteration     *)
(* writes build.logs from the coroutine's own list; status and             *)
(* completed_at are written only by the failing or the final commit.       *)
ExecStage(e, ok) ==
    /\ BagIn(e, executors)
    /\ e.pc \in 1..NumStages
    /\ LET rest == executors (-) SetToBag({e})
           log  == LocalLogs(e.pc)
       IN  IF ~ok
           THEN /\ builds' = [builds EXCEPT
                      ![e.build].logs = log \o <<LogEntry(stages[e.pc], "error")>>,
                      ![e.build].status = "failed",
                      ![e.build].completed_at = @ + 1]
                /\ executors' = rest
           ELSE IF e.pc = NumStages
           THEN /\ builds' = [builds EXCEPT
                      ![e.build].logs = log \o <<LogEntry("all", "done")>>,
                      ![e.build].status = "success",
                      ![e.build].completed_at = @ + 1]
                /\ executors' = rest
           ELSE /\ builds' = [builds EXCEPT ![e.build].logs = log]
                /\ executors' = rest (+) SetToBag({[e EXCEPT !.pc = e.pc + 1]})
    /\ UNCHANGED <<buildLogs, queueCheck, allocs, events, tasks, resp, socketVars>>

(* simulate_build lines 89-97: an exception raised inside the try block     *)
(* while the build is running, either by a stage (fault = "stage") or by a *)
(* db.commit() that records progress (fault = "commit").  The handler      *)
(* writes failed, the old logs with the error appended, and completed_at,  *)
(* and commits.  After a failed commit the session refuses further work    *)
(* until it is rolled back, which the handler never does: its own write    *)
(* raises and the bare except of lines 96-97 swallows that, so nothing is  *)
(* written.                                                                *)
ExecFault(e, fault) ==
    /\ BagIn(e, executors)
    /\ e.pc \in 1..NumStages
    /\ executors' = executors (-) SetToBag({e})
    /\ IF fault = "stage"
       THEN builds' = [builds EXCEPT
                ![e.build].status = "failed",
                ![e.build].logs = @ \o <<LogEntry("exception", "error")>>,
                ![e.build].completed_at = @ + 1]
       ELSE UNCHANGED builds
    /\ UNCHANGED <<buildLogs, queueCheck, allocs, events, tasks, resp, socketVars>>

----------------------------------------------------------------------------
(* BuildService *)

(* str.upper() on the letters project names are made of *)
Upper(c) ==
    CASE c = "a" -> "A" [] c = "b" -> "B" [] c = "i" -> "I" [] c = "l" -> "L"
      [] c = "o" -> "O" [] c = "p" -> "P" [] c = "s" -> "S" [] OTHER -> c

(* project.name[:3].upper() *)
ProjectAbbr(name) ==
    [i \in 1..(IF Len(name) < 3 THEN Len(name) ELSE 3) |-> Upper(name[i])]

(* f"{n:03d}": the decimal digits of n, zero padded to width 3 *)
RECURSIVE Decimal(_)
Decimal(n) == IF n < 10 THEN <<n>> ELSE Decimal(n \div 10) \o <<n % 10>>

Format03d(n) ==
    LET d == Decimal(n)
    IN  IF Len(d) >= 3 THEN d ELSE [i \in 1..(3 - Len(d)) |-> 0] \o d

(* int(build_number.split("-")[-1]) *)
RECURSIVE ParseInt(_)
ParseInt(d) ==
    IF d = <<>> THEN 0
    ELSE 10 * ParseInt(SubSeq(d, 1, Len(d) - 1)) + d[Len(d)]

(* the row `order_by(desc(Build.created_at)).first()` returns for a project: *)
(* rows are inserted in id order, so it is the one with the largest id       *)
LastBuildOf(p) ==
    LET ids == {b \in BuildIds : builds[b].project_id = p}
    IN  IF ids = {} THEN NULL ELSE CHOOSE b \in ids : \A c \in ids : c <= b

(* BuildService._generate_build_number *)
GenerateBuildNumber(p) ==
    LET abbr == IF p \in ProjectIds THEN ProjectAbbr(projects[p].name)
                ELSE <<"P", "R", "J">>
        last == LastBuildOf(p)
        next_num == IF last # NULL /\ builds[last].build_number # NoNumber
                    THEN ParseInt(builds[last].build_number.digits) + 1
                    ELSE 1
    IN  [abbr |-> abbr, digits |-> Format03d(next_num)]

LogRow(stage, level) == [stage |-> stage, level |-> level]

(* BuildService._add_build_log *)
AddBuildLog(b, stage, level) ==
    [buildLogs EXCEPT ![b] = Append(@, LogRow(stage, level))]

(* BuildService.create_build lines 46-63: the project checks and the Build *)
(* object with its generated number, before the INSERT is flushed          *)
CreateBuildBegin(p, trig, commit, maxb) ==
    /\ Len(builds) + BagCardinality(allocs) < maxb
    /\ IF p \notin ProjectIds \/ projects[p].status # "active"
       THEN /\ resp' = [op |-> "create_build", code |-> "ValueError", id |-> NULL, pre |-> None]
            /\ UNCHANGED allocs
       ELSE /\ allocs' = allocs (+) SetToBag({NewBuild(p, trig, commit, GenerateBuildNumber(p))})
            /\ UNCHANGED resp
    /\ UNCHANGED <<builds, buildLogs, executors, queueCheck, events, tasks, socketVars>>

(* BuildService.create_build lines 65-91: flush, initial log row,          *)
(* _queue_build (redis_client is not connected: nothing is queued), commit *)
CreateBuildCommit(a) ==
    /\ BagIn(a, allocs)
    /\ allocs' = allocs (-) SetToBag({a})
    /\ builds' = Append(builds, a)
    /\ buildLogs' = Append(buildLogs, <<LogRow("initialization", "info")>>)
    /\ resp' = [op |-> "create_build", code |-> "ok", id |-> Len(builds) + 1, pre |-> None]
    /\ UNCHANGED <<executors, queueCheck, events, tasks, socketVars>>

PreStatus(b) == IF b \in BuildIds THEN builds[b].status ELSE None

(* BuildService.start_build *)
StartBuild(b) ==
    /\ IF b \notin BuildIds \/ builds[b].status # "pending"
       THEN /\ resp' = [op |-> "start_build", code |-> "ValueError", id |-> b, pre |-> PreStatus(b)]
            /\ UNCHANGED <<builds, buildLogs>>
       ELSE /\ builds' = [builds EXCEPT ![b].status = "running",
                                        ![b].started_at = @ + 1]
            /\ buildLogs' = AddBuildLog(b, "execution", "info")
            /\ resp' = [op |-> "start_build", code |-> "ok", id |-> b, pre |-> PreStatus(b)]
    /\ UNCHANGED <<executors, queueCheck, allocs, events, tasks, socketVars>>

(* BuildService.complete_build *)
CompleteBuild(b, status, logs, error_message) ==
    /\ IF b \notin BuildIds \/ builds[b].status \notin {"pending", "running"}
       THEN /\ resp' = [op |-> "complete_build", code |-> "ValueError", id |-> b, pre |-> PreStatus(b)]
            /\ UNCHANGED <<builds, buildLogs>>
       ELSE /\ builds' = [builds EXCEPT
                  ![b].status = status,
                  ![b].completed_at = @ + 1,
                  ![b].logs = IF logs # <<>> THEN logs ELSE @,
                  ![b].error_message = IF error_message # None THEN error_message ELSE @]
            /\ buildLogs' = AddBuildLog(b, "completion",
                                           IF status = "failed" THEN "error" ELSE "info")
            /\ resp' = [op |-> "complete_build", code |-> "ok", id |-> b, pre |-> PreStatus(b)]
    /\ UNCHANGED <<executors, queueCheck, allocs, events, tasks, socketVars>>

(* cancel_build without the status check of line 219 *)
CancelBuild_NoStatusCheck(b) ==
    /\ IF b \notin BuildIds
       THEN /\ resp' = [op |-> "cancel_build", code |-> "ValueError", id |-> b, pre |-> PreStatus(b)]
            /\ UNCHANGED <<builds, buildLogs>>
       ELSE /\ builds' = [builds EXCEPT ![b].status = "cancelled",
                                        ![b].completed_at = @ + 1]
            /\ buildLogs' = AddBuildLog(b, "cancellation", "warning")
            /\ resp' = [op |-> "cancel_build", code |-> "AttributeError", id |-> b, pre |-> PreStatus(b)]
    /\ UNCHANGED <<executors, queueCheck, allocs, events, tasks, socketVars>>

(* cancel_build returning the build instead of raising at line 220 *)
CancelBuild_SilentOnTerminal(b) ==
    /\ IF b \notin BuildIds
       THEN /\ resp' = [op |-> "cancel_build", code |-> "ValueError", id |-> b, pre |-> PreStatus(b)]
            /\ UNCHANGED <<builds, buildLogs>>
       ELSE IF builds[b].status \notin {"pending", "running"}
       THEN /\ resp' = [op |-> "cancel_build", code |-> "ok", id |-> b, pre |-> PreStatus(b)]
            /\ UNCHANGED <<builds, buildLogs>>
       ELSE /\ builds' = [builds EXCEPT ![b].status = "cancelled",
                                        ![b].completed_at = @ + 1]
            /\ buildLogs' = AddBuildLog(b, "cancellation", "warning")
            /\ resp' = [op |-> "cancel_build", code |-> "AttributeError", id |-> b, pre |-> PreStatus(b)]
    /\ UNCHANGED <<executors, queueCheck, allocs, events, tasks, socketVars>>

(* BuildService.cancel_build.  Line 235 reads self.redis, an attribute the *)
(* class never sets: the call raises AttributeError after the commit.      *)
CancelBuild(b) ==
    /\ IF b \notin BuildIds \/ builds[b].status \notin {"pending", "running"}
       THEN /\ resp' = [op |-> "cancel_build", code |-> "ValueError", id |-> b, pre |-> PreStatus(b)]
            /\ UNCHANGED <<builds, buildLogs>>
       ELSE /\ builds' = [builds EXCEPT ![b].status = "cancelled",
                                        ![b].completed_at = @ + 1]
            /\ buildLogs' = AddBuildLog(b, "cancellation", "warning")
            /\ resp' = [op |-> "cancel_build", code |-> "AttributeError", id |-> b, pre |-> PreStatus(b)]
    /\ UNCHANGED <<executors, queueCheck, allocs, events, tasks, socketVars>>

ExternalLog == <<LogEntry("external", "text")>>

(* BuildService alone: concurrent create_build calls and the status calls *)
NextService ==
    \/ \E p \in {1, 3} : CreateBuildBegin(p, "manual", "abc123", MaxAllocs)
    \/ \E a \in BagToSet(allocs) : CreateBuildCommit(a)
    \/ \E b \in 1..MaxAllocs : StartBuild(b)
    \/ \E b \in 1..MaxAllocs, st \in {"success", "failed", "timeout"},
          out \in {<<<<>>, None>>, <<ExternalLog, "boom">>} :
          CompleteBuild(b, st, out[1], out[2])
    \/ \E b \in 1..MaxAllocs : CancelBuild(b)

SpecService == Init /\ [][NextService]_vars

(* a create_build call that has begun runs to its return; the coroutine    *)
(* object that the un-awaited broadcast_build_update(...) call makes is    *)
(* dropped and never scheduled, so no step of the service is a publication *)
ServiceReturn == \E a \in BagToSet(allocs) : CreateBuildCommit(a)

SpecPublish == Init /\ [][NextService]_vars /\ WF_vars(ServiceReturn)

----------------------------------------------------------------------------
----------------------------------------------------------------------------
(* GitHub webhooks.                                                        *)
(* A request body is a record of the JSON fields the handlers read; json   *)
(* is "object", "array" (valid JSON without .get) or "invalid" (rejected   *)
(* by json.loads).  A ref is its path segments.                            *)
(* The HMAC-SHA256 hex digest of a body under a key is the pair of both,   *)
(* so two digests are equal exactly when key and body are.                 *)

NoRun == [status |-> None, conclusion |-> None, head_sha |-> None, html_url |-> None]

Body(json, repo, ref, commit, run) ==
    [json |-> json, repo |-> repo, ref |-> ref, head_commit |-> commit,
     workflow_run |-> run]

HmacSha256(key, body) == <<key, body>>

(* the X-Hub-Signature-256 header: absent, or a string that may or may not *)
(* start with "sha256=", followed by a digest                              *)
NoSignature == [present |-> FALSE, prefix |-> FALSE, digest |-> <<>>]
Signature(prefix, key, body) ==
    [present |-> TRUE, prefix |-> prefix, digest |-> HmacSha256(key, body)]

Delivery(body, event, delivery, sig) ==
    [body |-> body, event |-> event, delivery |-> delivery, sig |-> sig]

PushMain == Body("object", <<"acme", "app">>, <<"refs", "heads", "main">>, "abc123", NoRun)
RunFailed ==
    Body("object", <<"acme", "app">>, <<>>, None,
         [status |-> "completed", conclusion |-> "failure", head_sha |-> "abc123",
          html_url |-> "run/1"])
Garbage == Body("invalid", <<>>, <<>>, None, NoRun)
JsonArray == Body("array", <<>>, <<>>, None, NoRun)
Zen == Body("object", <<>>, <<>>, None, NoRun)

Deliveries ==
    { Delivery(PushMain, "push", "d1", Signature(TRUE, "S1", PushMain)),
      Delivery(PushMain, "push", "d1", Signature(TRUE, "bad", PushMain)),
      Delivery(PushMain, "push", "d1", Signature(FALSE, "S1", PushMain)),
      Delivery(PushMain, "push", "d1", NoSignature),
      Delivery(RunFailed, "workflow_run", "d2", Signature(TRUE, "S1", RunFailed)),
      Delivery(Garbage, "push", "d3", NoSignature),
      Delivery(JsonArray, "push", "d3", NoSignature),
      Delivery(Zen, None, "d4", NoSignature) }

(* Project.repository_url.ilike(f"%{repo_url}%"): repo_url occurs in the   *)
(* project's URL                                                           *)
Ilike(url, pat) ==
    \E i \in 0..(Len(url) - Len(pat)) : SubSeq(url, i + 1, i + Len(pat)) = pat

(* the rows a query .first() may return: any matching row, none (NULL)     *)
(* when there is no match                                                  *)
FirstProject(matches) == IF matches = {} THEN {NULL} ELSE matches

EndpointProjects(repo) ==
    IF repo = <<>> THEN {NULL}
    ELSE FirstProject({p \in ProjectIds :
            Ilike(projects[p].repository_url, repo) /\ projects[p].webhook_enabled})

(* verification that compares nothing *)
VerifyGithubSignature_AcceptAll(raw_body, sig, secret) ==
    sig.present

(* WebhookService.verify_github_signature, for a header with the prefix *)
VerifyGithubSignature(raw_body, sig, secret) ==
    HmacSha256(secret, raw_body) = sig.digest

EventIds == DOMAIN events

(* event_type is f"github.{event_type}": the provider, then the type *)
NewEvent(event_type, body, sig, header_delivery, delivery_id, status, project) ==
    [event_type |-> <<"github", event_type>>, payload |-> body, signature |-> sig,
     header_delivery |-> header_delivery, delivery_id |-> delivery_id,
     status |-> status, project_id |-> project, build_id |-> NULL,
     delivery_attempts |-> 0, next_retry_at |-> NULL, processed_at |-> NULL,
     error_message |-> None]
\* processed_at is 0 (NULL) or 1 (set)

WebhookResp(code) == [op |-> "webhook", code |-> code, id |-> NULL, pre |-> None]

ProcessTask(d, event_type) ==
    [kind |-> "process", payload |-> d.body, event_type |-> event_type,
     signature |-> d.sig, header_delivery |-> d.delivery, webhook_id |-> NULL]

TasksOfKind(kind) ==
    LET ts == {t \in BagToSet(tasks) : t.kind = kind}
    IN  [t \in ts |-> CopiesIn(t, tasks)]

InFlight == Len(events) + BagCardinality(TasksOfKind("process"))

(* github_webhook recording a failed verification without raising 401 *)
GithubWebhook_LogsMismatchOnly(d, project) ==
    /\ InFlight < MaxDeliveries
    /\ IF d.body.json = "invalid"
       THEN /\ project = NULL
            /\ resp' = WebhookResp("400")
            /\ UNCHANGED <<events, tasks>>
       ELSE IF d.body.json # "object"
       THEN \* payload.get raises AttributeError: the handler of line 184
            /\ project = NULL
            /\ resp' = WebhookResp("500")
            /\ UNCHANGED <<events, tasks>>
       ELSE LET event_type == IF d.event # None THEN d.event ELSE "ping"
                checked == /\ project # NULL
                           /\ projects[project].webhook_secret # None
                           /\ d.sig.present
            IN  /\ project \in EndpointProjects(d.body.repo)
                /\ IF checked /\ ~d.sig.prefix
                   THEN /\ resp' = WebhookResp("400")
                        /\ UNCHANGED <<events, tasks>>
                   ELSE IF checked /\ ~VerifyGithubSignature(d.body, d.sig,
                                            projects[project].webhook_secret)
                   THEN /\ events' = Append(events,
                              NewEvent(event_type, d.body, d.sig, d.delivery,
                                       [src |-> "header", val |-> d.delivery, n |-> 0],
                                       "failed_verification", project))
                        /\ tasks' = tasks (+) SetToBag({ProcessTask(d, event_type)})
                        /\ resp' = WebhookResp("202")
                   ELSE /\ tasks' = tasks (+) SetToBag({ProcessTask(d, event_type)})
                        /\ resp' = WebhookResp("202")
                        /\ UNCHANGED events
    /\ UNCHANGED <<builds, buildLogs, executors, queueCheck, allocs, socketVars>>

(* POST /webhooks/github: api github_webhook *)
GithubWebhook(d, project) ==
    /\ InFlight < MaxDeliveries
    /\ IF d.body.json = "invalid"
       THEN /\ project = NULL
            /\ resp' = WebhookResp("400")
            /\ UNCHANGED <<events, tasks>>
       ELSE IF d.body.json # "object"
       THEN \* payload.get raises AttributeError: the handler of line 184
            /\ project = NULL
            /\ resp' = WebhookResp("500")
            /\ UNCHANGED <<events, tasks>>
       ELSE LET event_type == IF d.event # None THEN d.event ELSE "ping"
                checked == /\ project # NULL
                           /\ projects[project].webhook_secret # None
                           /\ d.sig.present
            IN  /\ project \in EndpointProjects(d.body.repo)
                /\ IF checked /\ ~d.sig.prefix
                   THEN /\ resp' = WebhookResp("400")
                        /\ UNCHANGED <<events, tasks>>
                   ELSE IF checked /\ ~VerifyGithubSignature(d.body, d.sig,
                                            projects[project].webhook_secret)
                   THEN /\ events' = Append(events,
                              NewEvent(event_type, d.body, d.sig, d.delivery,
                                       [src |-> "header", val |-> d.delivery, n |-> 0],
                                       "failed_verification", project))
                        /\ resp' = WebhookResp("401")
                        /\ UNCHANGED tasks
                   ELSE /\ tasks' = tasks (+) SetToBag({ProcessTask(d, event_type)})
                        /\ resp' = WebhookResp("202")
                        /\ UNCHANGED events
    /\ UNCHANGED <<builds, buildLogs, executors, queueCheck, allocs, socketVars>>

(* ref.replace("refs/heads/", ""): every occurrence of the segments refs,   *)
(* heads that a further segment follows is removed                         *)
RECURSIVE BranchOfRef(_)
BranchOfRef(ref) ==
    IF Len(ref) < 3 THEN ref
    ELSE IF ref[1] = "refs" /\ ref[2] = "heads"
    THEN BranchOfRef(SubSeq(ref, 3, Len(ref)))
    ELSE <<ref[1]>> \o BranchOfRef(Tail(ref))

(* WebhookService._handle_push_event: the project it returns, and whether  *)
(* it reaches line 185, where the name build_service is bound nowhere and  *)
(* the call raises NameError                                               *)
PushProjects(body) ==
    IF body.repo = <<>> THEN {NULL}
    ELSE FirstProject({p \in ProjectIds :
            /\ Ilike(projects[p].repository_url, body.repo)
            /\ projects[p].webhook_enabled
            /\ projects[p].status = "active"})

PushRaises(body, project) ==
    /\ project # NULL
    /\ BranchOfRef(body.ref) = projects[project].branch
    /\ body.head_commit # None

(* WebhookService._handle_workflow_run_event *)
RunProjects(body) ==
    IF \/ body.workflow_run.status # "completed"
       \/ body.workflow_run.conclusion = None
       \/ body.workflow_run.head_sha = None
       \/ body.repo = <<>>
    THEN {NULL}
    ELSE FirstProject({p \in ProjectIds :
            /\ Ilike(projects[p].repository_url, body.repo)
            /\ projects[p].status = "active"})

(* the select of lines 234-238 ordered by created_at ascending *)
RunBuild_Oldest(body, project) ==
    LET ids == {b \in BuildIds :
                   /\ builds[b].project_id = project
                   /\ builds[b].commit_hash = body.workflow_run.head_sha
                   /\ builds[b].status \in {"pending", "running"}}
    IN  IF project = NULL \/ ids = {} THEN NULL
        ELSE CHOOSE b \in ids : \A c \in ids : b <= c

(* the build lines 234-238 select: the newest non-terminal build of the    *)
(* project with the commit                                                 *)
RunBuild(body, project) ==
    LET ids == {b \in BuildIds :
                   /\ builds[b].project_id = project
                   /\ builds[b].commit_hash = body.workflow_run.head_sha
                   /\ builds[b].status \in {"pending", "running"}}
    IN  IF project = NULL \/ ids = {} THEN NULL
        ELSE CHOOSE b \in ids : \A c \in ids : c <= b

Reconciled(body, b) ==
    [builds EXCEPT
       ![b].status = IF body.workflow_run.conclusion = "success" THEN "success" ELSE "failed",
       ![b].error_message = IF body.workflow_run.conclusion = "success" THEN @
                            ELSE "GitHub Actions",
       ![b].completed_at = @ + 1,
       ![b].external_url = body.workflow_run.html_url]

(* process_webhook_async running WebhookService.process_github_webhook:    *)
(* one transaction, committed at the end                                   *)
ProcessGithubWebhook(t, project) ==
    /\ BagIn(t, tasks)
    /\ t.kind = "process"
    /\ tasks' = tasks (-) SetToBag({t})
    /\ LET id == Len(events) + 1
           ev == NewEvent(t.event_type, t.payload, t.signature, t.header_delivery,
                          [src |-> "token", val |-> None, n |-> id], "received", NULL)
           done(e, p) == [e EXCEPT !.project_id = IF p # NULL THEN p ELSE @,
                                   !.status = "processed",
                                   !.processed_at = 1]
           failed(e, msg) == [e EXCEPT !.status = "failed", !.error_message = msg]
       IN  CASE t.event_type = "push" ->
                 /\ project \in PushProjects(t.payload)
                 /\ events' = Append(events,
                       IF PushRaises(t.payload, project)
                       THEN failed(ev, "NameError")
                       ELSE done(ev, project))
                 /\ UNCHANGED builds
             [] t.event_type = "workflow_run" ->
                 /\ project \in RunProjects(t.payload)
                 /\ LET b == RunBuild(t.payload, project)
                    IN  IF b = NULL
                        THEN /\ events' = Append(events, done(ev, project))
                             /\ UNCHANGED builds
                        ELSE /\ events' = Append(events,
                                    done([ev EXCEPT !.build_id = b], project))
                             /\ builds' = Reconciled(t.payload, b)
             [] t.event_type = "check_run" ->
                 /\ project = NULL
                 /\ events' = Append(events, done(ev, NULL))
                 /\ UNCHANGED builds
             [] t.event_type = "ping" ->
                 \* _handle_ping_event binds no `project`: line 116 raises
                 \* UnboundLocalError, which line 123 catches
                 /\ project = NULL
                 /\ events' = Append(events,
                       failed([ev EXCEPT !.status = "ping_received"], "UnboundLocalError"))
                 /\ UNCHANGED builds
             [] OTHER ->
                 /\ project = NULL
                 /\ events' = Append(events, [ev EXCEPT !.status = "skipped"])
                 /\ UNCHANGED builds
    /\ UNCHANGED <<buildLogs, executors, queueCheck, allocs, resp, socketVars>>

RetryResp(code, id) ==
    [op |-> "retry", code |-> code, id |-> id,
     pre |-> IF id \in EventIds THEN events[id].status ELSE None]

RetryTasks == {t \in BagToSet(tasks) : t.kind = "retry"}

(* retry_webhook comparing delivery_attempts > 3 at line 447 *)
RetryWebhook_OffByOne(id, user) ==
    /\ IF id \notin EventIds
       THEN /\ resp' = RetryResp("404", id)
            /\ UNCHANGED tasks
       ELSE IF /\ events[id].project_id # NULL
               /\ projects[events[id].project_id].owner_id # user
       THEN /\ resp' = RetryResp("403", id)
            /\ UNCHANGED tasks
       ELSE IF events[id].status # "failed"
       THEN /\ resp' = RetryResp("400", id)
            /\ UNCHANGED tasks
       ELSE IF events[id].delivery_attempts > 3
       THEN /\ resp' = RetryResp("400", id)
            /\ UNCHANGED tasks
       ELSE /\ BagCardinality(TasksOfKind("retry")) < MaxRetryRequests
            /\ tasks' = tasks (+) SetToBag({[kind |-> "retry", webhook_id |-> id]})
            /\ resp' = RetryResp("202", id)
    /\ UNCHANGED <<builds, buildLogs, executors, queueCheck, allocs, events, socketVars>>

(* POST /webhooks/{webhook_id}/retry: api retry_webhook *)
RetryWebhook(id, user) ==
    /\ IF id \notin EventIds
       THEN /\ resp' = RetryResp("404", id)
            /\ UNCHANGED tasks
       ELSE IF /\ events[id].project_id # NULL
               /\ projects[events[id].project_id].owner_id # user
       THEN /\ resp' = RetryResp("403", id)
            /\ UNCHANGED tasks
       ELSE IF events[id].status # "failed"
       THEN /\ resp' = RetryResp("400", id)
            /\ UNCHANGED tasks
       ELSE IF events[id].delivery_attempts >= 3
       THEN /\ resp' = RetryResp("400", id)
            /\ UNCHANGED tasks
       ELSE /\ BagCardinality(TasksOfKind("retry")) < MaxRetryRequests
            /\ tasks' = tasks (+) SetToBag({[kind |-> "retry", webhook_id |-> id]})
            /\ resp' = RetryResp("202", id)
    /\ UNCHANGED <<builds, buildLogs, executors, queueCheck, allocs, events, socketVars>>

(* retry_failed_webhook without the checks of lines 366-374 *)
RetryFailedWebhook_NoRecheck(t) ==
    /\ BagIn(t, tasks)
    /\ t.kind = "retry"
    /\ tasks' = tasks (-) SetToBag({t})
    /\ LET id == t.webhook_id
       IN  IF id \notin EventIds
           THEN UNCHANGED events
           ELSE events' = [events EXCEPT ![id].status = "pending_retry",
                                         ![id].delivery_attempts = @ + 1,
                                         ![id].next_retry_at = @ + 1]
    /\ UNCHANGED <<builds, buildLogs, executors, queueCheck, allocs, resp, socketVars>>

(* retry_webhook_async running WebhookService.retry_failed_webhook *)
RetryFailedWebhook(t) ==
    /\ BagIn(t, tasks)
    /\ t.kind = "retry"
    /\ tasks' = tasks (-) SetToBag({t})
    /\ LET id == t.webhook_id
       IN  IF \/ id \notin EventIds
              \/ events[id].status # "failed"
              \/ events[id].delivery_attempts >= max_retries
           THEN UNCHANGED events
           ELSE events' = [events EXCEPT ![id].status = "pending_retry",
                                         ![id].delivery_attempts = @ + 1,
                                         ![id].next_retry_at = @ + 1]
    /\ UNCHANGED <<builds, buildLogs, executors, queueCheck, allocs, resp, socketVars>>

(* process_webhook_event_task(event_id) in the worker: retries is          *)
(* self.request.retries, pc is parse while _process_webhook_event runs and *)
(* queued while a retry waits for its countdown                            *)
CeleryTask(id) == [kind |-> "celery", webhook_id |-> id, retries |-> 0, pc |-> "parse"]

CeleryTasks == {t \in BagToSet(tasks) : t.kind = "celery"}

(* process_webhook_event_task: _process_webhook_event lines 51-63, the     *)
(* event is loaded and committed as processing                             *)
ProcessEventBegin(id) ==
    /\ id \in EventIds
    /\ \A t \in CeleryTasks : t.webhook_id # id
    /\ \A b \in BuildIds : builds[b].completed_at < MaxStamp
    /\ events' = [events EXCEPT ![id].status = "processing"]
    /\ tasks' = tasks (+) SetToBag({CeleryTask(id)})
    /\ UNCHANGED <<builds, buildLogs, executors, queueCheck, allocs, resp, socketVars>>

(* webhook_parser.handle_github_workflow_run: the rows its SELECT returns  *)
ParserRunBuilds(body, project) ==
    {b \in BuildIds :
        /\ builds[b].commit_hash = body.workflow_run.head_sha
        /\ (project # NULL => builds[b].project_id = project)}

(* handle_github_push with a project row that has the attribute active:   *)
(* lines 44-68 insert a build for a push to the monitored branch, before   *)
(* the notification call raises                                            *)
ParserPushBuilds_ActiveBound(body, project) ==
    IF /\ project # NULL
       /\ BranchOfRef(body.ref) = projects[project].branch
       /\ body.head_commit # None
    THEN <<NewBuild(project, "webhook", body.head_commit, None)>>
    ELSE <<>>

(* webhook_parser.handle_github_push: the builds it inserts.  Without a    *)
(* project it returns at line 42; with one, project.active at line 41      *)
(* raises AttributeError before the insert of lines 56-68 is reached.      *)
ParserPushBuilds(body, project) == <<>>

(* _process_webhook_event lines 65-95: parse_github_webhook and the final  *)
(* status.  handle_github_push reads project.active and the notification   *)
(* calls read project.user_id; a project row has neither attribute, so     *)
(* both raise AttributeError.  scalar_one_or_none raises when the SELECT   *)
(* returns several rows.                                                   *)
ProcessEventParse(t) ==
    /\ t \in CeleryTasks
    /\ t.pc = "parse"
    /\ LET id      == t.webhook_id
           ev      == events[id]
           type    == ev.event_type[2]
           project == ev.project_id
           run     == ev.payload.workflow_run
           rows    == ParserRunBuilds(ev.payload, project)
           ok      == [events EXCEPT ![id].status = "processed", ![id].processed_at = 1]
           failed  == [events EXCEPT ![id].status = "failed"]
       IN  IF ev.event_type[1] # "github"
           THEN events' = ok /\ UNCHANGED builds
           ELSE CASE type = "push" ->
                     /\ events' = IF project = NULL THEN ok ELSE failed
                     /\ builds' = builds \o ParserPushBuilds(ev.payload, project)
                  [] type = "workflow_run" ->
                     IF run = NoRun \/ run.status # "completed" \/ run.conclusion = None
                        \/ run.head_sha = None \/ rows = {}
                     THEN events' = ok /\ UNCHANGED builds
                     ELSE IF Cardinality(rows) > 1
                     THEN events' = failed /\ UNCHANGED builds
                     ELSE /\ builds' = [Reconciled(ev.payload, CHOOSE b \in rows : TRUE)
                                          EXCEPT ![CHOOSE b \in rows : TRUE].error_message =
                                              IF run.conclusion = "success"
                                              THEN builds[CHOOSE b \in rows : TRUE].error_message
                                              ELSE "GitHub Actions workflow failed"]
                          /\ events' = IF project = NULL THEN ok ELSE failed
                  [] type = "pull_request" ->
                     \* handle_github_pull_request is bound nowhere
                     events' = failed /\ UNCHANGED builds
                  [] OTHER ->
                     events' = ok /\ UNCHANGED builds
    \* tasks.py lines 43-45: the exception that _process_webhook_event raises
    \* again is answered with self.retry, until max_retries retries were made
    /\ tasks' = IF events'[t.webhook_id].status = "failed" /\ t.retries < TaskMaxRetries
                THEN (tasks (-) SetToBag({t}))
                         (+) SetToBag({[t EXCEPT !.retries = @ + 1, !.pc = "queued"]})
                ELSE tasks (-) SetToBag({t})
    /\ UNCHANGED <<buildLogs, executors, queueCheck, allocs, resp, socketVars>>

(* a retry of process_webhook_event_task after its countdown:              *)
(* _process_webhook_event lines 51-63 again                                *)
ProcessEventRetry(t) ==
    /\ t \in CeleryTasks
    /\ t.pc = "queued"
    /\ \A b \in BuildIds : builds[b].completed_at < MaxStamp
    /\ events' = [events EXCEPT ![t.webhook_id].status = "processing"]
    /\ tasks' = (tasks (-) SetToBag({t})) (+) SetToBag({[t EXCEPT !.pc = "parse"]})
    /\ UNCHANGED <<builds, buildLogs, executors, queueCheck, allocs, resp, socketVars>>

(* The webhook endpoint with its background processing, the retry          *)
(* endpoint, the Celery event task, and BuildService creating and starting *)
(* the builds that run events reconcile.  A retry of the event task stays  *)
(* in its countdown here; SpecReconcile and SpecAttempt run the retries.   *)
NextWebhook ==
    \/ \E d \in Deliveries, p \in ProjectIds \cup {NULL} : GithubWebhook(d, p)
    \/ \E t \in BagToSet(tasks), p \in ProjectIds \cup {NULL} : ProcessGithubWebhook(t, p)
    \/ \E id \in 1..MaxDeliveries, u \in Users : RetryWebhook(id, u)
    \/ \E t \in BagToSet(tasks) : RetryFailedWebhook(t)
    \/ \E id \in 1..MaxDeliveries : ProcessEventBegin(id)
    \/ \E t \in BagToSet(tasks) : ProcessEventParse(t)
    \/ CreateBuildBegin(1, "manual", "abc123", WebhookBuilds)
    \/ \E a \in BagToSet(allocs) : CreateBuildCommit(a)
    \/ \E b \in 1..WebhookBuilds : StartBuild(b)

SpecWebhook == Init /\ [][NextWebhook]_vars

RetryDeliveries ==
    { Delivery(PushMain, "push", "d1", Signature(TRUE, "S1", PushMain)),
      Delivery(RunFailed, "workflow_run", "d2", Signature(TRUE, "S1", RunFailed)),
      Delivery(Zen, None, "d4", NoSignature) }

(* background_tasks.add_task: the server runs every background task after  *)
(* the response of its request has been sent                               *)
BackgroundStep ==
    \/ \E t \in BagToSet(tasks), p \in ProjectIds \cup {NULL} : ProcessGithubWebhook(t, p)
    \/ \E t \in BagToSet(tasks) : RetryFailedWebhook(t)

(* The webhook endpoint, the retry endpoint and their background tasks,    *)
(* which the server runs to the end.  process_webhook_event_task is        *)
(* registered with the worker, but no code sends it: it runs only when it  *)
(* is sent by hand, so nothing obliges it to run.                          *)
NextRetry ==
    \/ \E d \in RetryDeliveries, p \in ProjectIds \cup {NULL} : GithubWebhook(d, p)
    \/ BackgroundStep
    \/ \E id \in 1..MaxDeliveries, u \in Users : RetryWebhook(id, u)
    \/ \E id \in 1..MaxDeliveries : ProcessEventBegin(id)
    \/ \E t \in BagToSet(tasks) : ProcessEventParse(t)

SpecRetry == Init /\ [][NextRetry]_vars /\ WF_vars(BackgroundStep)

(* pushes to project 1: to a feature branch, to the branch whose name is   *)
(* refs/heads/main, and of a tag named main                                *)
PushFeature ==
    Body("object", <<"acme", "app">>, <<"refs", "heads", "feature-x">>, "abc123", NoRun)
PushNested ==
    Body("object", <<"acme", "app">>, <<"refs", "heads", "refs", "heads", "main">>,
         "abc123", NoRun)
PushTag == Body("object", <<"acme", "app">>, <<"refs", "tags", "main">>, "abc123", NoRun)

PushDeliveries ==
    { Delivery(PushMain, "push", "d1", Signature(TRUE, "S1", PushMain)),
      Delivery(PushFeature, "push", "d5", Signature(TRUE, "S1", PushFeature)),
      Delivery(PushFeature, "push", "d5", NoSignature),
      Delivery(PushNested, "push", "d6", Signature(TRUE, "S1", PushNested)),
      Delivery(PushTag, "push", "d7", Signature(TRUE, "S1", PushTag)) }

(* Push deliveries through the webhook endpoint and its background         *)
(* processing, beside builds that BuildService created and started.        *)
NextPush ==
    \/ \E d \in PushDeliveries, p \in ProjectIds \cup {NULL} : GithubWebhook(d, p)
    \/ \E t \in BagToSet(tasks), p \in ProjectIds \cup {NULL} : ProcessGithubWebhook(t, p)
    \/ CreateBuildBegin(1, "manual", "abc123", WebhookBuilds)
    \/ \E a \in BagToSet(allocs) : CreateBuildCommit(a)
    \/ \E b \in 1..WebhookBuilds : StartBuild(b)

SpecPush == Init /\ [][NextPush]_vars

(* deliveries for a repository that no project has *)
PushUnknown ==
    Body("object", <<"acme", "gone">>, <<"refs", "heads", "main">>, "abc123", NoRun)
RunUnknown ==
    Body("object", <<"acme", "gone">>, <<>>, None,
         [status |-> "completed", conclusion |-> "failure", head_sha |-> "abc123",
          html_url |-> "run/3"])

ResolveDeliveries ==
    { Delivery(PushUnknown, "push", "d8", Signature(TRUE, "S1", PushUnknown)),
      Delivery(PushUnknown, "push", "d8", NoSignature),
      Delivery(RunUnknown, "workflow_run", "d9", NoSignature),
      Delivery(PushFeature, "push", "d5", Signature(TRUE, "S1", PushFeature)) }

(* Deliveries for an unknown repository through the webhook endpoint and   *)
(* its background processing, beside a build that BuildService created.    *)
NextResolve ==
    \/ \E d \in ResolveDeliveries, p \in ProjectIds \cup {NULL} : GithubWebhook(d, p)
    \/ \E t \in BagToSet(tasks), p \in ProjectIds \cup {NULL} : ProcessGithubWebhook(t, p)
    \/ CreateBuildBegin(1, "manual", "abc123", WebhookBuilds)
    \/ \E a \in BagToSet(allocs) : CreateBuildCommit(a)
    \/ \E b \in 1..WebhookBuilds : StartBuild(b)

SpecResolve == Init /\ [][NextResolve]_vars

(* a push to the repository of the archived project 3 *)
PushOld == Body("object", <<"acme", "old">>, <<"refs", "heads", "main">>, "abc123", NoRun)

GateDeliveries ==
    { Delivery(PushOld, "push", "d10", Signature(TRUE, "S3", PushOld)),
      Delivery(PushOld, "push", "d10", NoSignature) }

(* project ids of requests: an active project, the archived one, and an id *)
(* that no project has                                                     *)
RequestedProjects == {1, 3, Len(projects) + 1}

(* Every way a build is created, for active, archived and missing          *)
(* projects: the trigger endpoint, BuildService.create_build and a push.   *)
NextGate ==
    \/ \E p \in RequestedProjects, u \in Users : TriggerBuild(p, u, "abc123", GateBuilds)
    \/ \E p \in RequestedProjects : CreateBuildBegin(p, "manual", "abc123", GateBuilds)
    \/ \E a \in BagToSet(allocs) : CreateBuildCommit(a)
    \/ \E d \in GateDeliveries, p \in ProjectIds \cup {NULL} : GithubWebhook(d, p)
    \/ \E t \in BagToSet(tasks), p \in ProjectIds \cup {NULL} : ProcessGithubWebhook(t, p)

SpecGate == Init /\ [][NextGate]_vars

RunSuccess ==
    Body("object", <<"acme", "app">>, <<>>, None,
         [status |-> "completed", conclusion |-> "success", head_sha |-> "abc123",
          html_url |-> "run/2"])

RunDeliveries ==
    { Delivery(RunFailed, "workflow_run", "d2", Signature(TRUE, "S1", RunFailed)),
      Delivery(RunSuccess, "workflow_run", "d8", Signature(TRUE, "S1", RunSuccess)) }

(* Run-completion deliveries through the webhook endpoint and through the  *)
(* Celery event task, beside builds of the commit that BuildService        *)
(* created, one call at a time, and started.                               *)
NextReconcile ==
    \/ \E d \in RunDeliveries, p \in ProjectIds \cup {NULL} : GithubWebhook(d, p)
    \/ \E t \in BagToSet(tasks), p \in ProjectIds \cup {NULL} : ProcessGithubWebhook(t, p)
    \/ \E id \in 1..MaxDeliveries : ProcessEventBegin(id)
    \/ \E t \in BagToSet(tasks) : ProcessEventParse(t)
    \/ \E t \in BagToSet(tasks) : ProcessEventRetry(t)
    \/ allocs = EmptyBag /\ CreateBuildBegin(1, "manual", "abc123", ReconBuilds)
    \/ \E a \in BagToSet(allocs) : CreateBuildCommit(a)
    \/ \E b \in 1..ReconBuilds : StartBuild(b)

SpecReconcile == Init /\ [][NextReconcile]_vars

AttemptDeliveries ==
    { Delivery(PushMain, "push", "d1", Signature(TRUE, "bad", PushMain)),
      Delivery(PushMain, "push", "d1", Signature(TRUE, "S1", PushMain)),
      Delivery(PushFeature, "push", "d5", Signature(TRUE, "S1", PushFeature)),
      Delivery(Zen, None, "d4", NoSignature) }

(* Pushes and a ping through the endpoint, and the event task with its     *)
(* retries: the worker runs a retry when its countdown has passed.         *)
NextAttempt ==
    \/ \E d \in AttemptDeliveries, p \in ProjectIds \cup {NULL} : GithubWebhook(d, p)
    \/ \E t \in BagToSet(tasks), p \in ProjectIds \cup {NULL} : ProcessGithubWebhook(t, p)
    \/ \E id \in 1..MaxDeliveries : ProcessEventBegin(id)
    \/ \E t \in BagToSet(tasks) : ProcessEventParse(t)
    \/ \E t \in BagToSet(tasks) : ProcessEventRetry(t)

SpecAttempt == Init /\ [][NextAttempt]_vars

ReviveDeliveries ==
    { Delivery(PushMain, "push", "d1", Signature(TRUE, "bad", PushMain)),
      Delivery(PushMain, "push", "d1", Signature(TRUE, "S1", PushMain)) }

(* The retry endpoint and its background task beside the event task with   *)
(* its retries, which is what brings a retried event back to failed.       *)
NextRevive ==
    \/ \E d \in ReviveDeliveries, p \in ProjectIds \cup {NULL} : GithubWebhook(d, p)
    \/ \E t \in BagToSet(tasks), p \in ProjectIds \cup {NULL} : ProcessGithubWebhook(t, p)
    \/ \E id \in 1..MaxDeliveries, u \in Users : RetryWebhook(id, u)
    \/ \E t \in BagToSet(tasks) : RetryFailedWebhook(t)
    \/ \E id \in 1..MaxDeliveries : ProcessEventBegin(id)
    \/ \E t \in BagToSet(tasks) : ProcessEventParse(t)
    \/ \E t \in BagToSet(tasks) : ProcessEventRetry(t)

SpecRevive == Init /\ [][NextRevive]_vars

(* a run-completion event whose repository URL occurs in the URL of every  *)
(* project                                                                 *)
RunWide ==
    Body("object", <<"acme">>, <<>>, None,
         [status |-> "completed", conclusion |-> "failure", head_sha |-> "abc123",
          html_url |-> "run/4"])

VerifyDeliveries ==
    { Delivery(RunWide, "workflow_run", "d11", Signature(TRUE, "bad", RunWide)),
      Delivery(RunWide, "workflow_run", "d11", Signature(TRUE, "S1", RunWide)),
      Delivery(RunFailed, "workflow_run", "d2", Signature(TRUE, "S1", RunFailed)) }

(* Run-completion deliveries whose repository matches several projects,    *)
(* beside a build of project 1 that BuildService created and started.      *)
NextVerify ==
    \/ \E d \in VerifyDeliveries, p \in ProjectIds \cup {NULL} : GithubWebhook(d, p)
    \/ \E t \in BagToSet(tasks), p \in ProjectIds \cup {NULL} : ProcessGithubWebhook(t, p)
    \/ allocs = EmptyBag /\ CreateBuildBegin(1, "manual", "abc123", WebhookBuilds)
    \/ \E a \in BagToSet(allocs) : CreateBuildCommit(a)
    \/ \E b \in 1..WebhookBuilds : StartBuild(b)

SpecVerify == Init /\ [][NextVerify]_vars

Threads == {e \in BagToSet(executors) : e.kind = "thread"}

(* The trigger endpoint and the executor threads it starts; the background *)
(* tasks of the requests are still waiting to be run.                      *)
NextCap ==
    \/ TriggerBuild(1, 1, "abc123", CapBuilds)
    \/ \E e \in Threads : ExecBegin(e)
    \/ \E e \in Threads, ok \in BOOLEAN : ExecStage(e, ok)

SpecCap == Init /\ [][NextCap]_vars

(* The life of a build: the trigger endpoint with both of its executors,   *)
(* and the BuildService status calls.                                      *)
NextLife ==
    \/ \E p \in {1, 3}, u \in Users : TriggerBuild(p, u, "abc123", LifeBuilds)
    \/ \E e \in BagToSet(executors) : ExecBegin(e)
    \/ \E e \in BagToSet(executors), ok \in BOOLEAN : ExecStage(e, ok)
    \/ \E b \in 1..LifeBuilds : StartBuild(b)
    \/ \E b \in 1..LifeBuilds, st \in {"success", "failed", "timeout"} :
          CompleteBuild(b, st, <<>>, None)
    \/ \E b \in 1..LifeBuilds : CancelBuild(b)

SpecLife == Init /\ [][NextLife]_vars

(* The executors of a triggered build under faults.  Both coroutines are   *)
(* scheduled until they return: the thread by the interpreter, the         *)
(* background task by the server after the response.                       *)
ExecutorStep ==
    \E e \in BagToSet(executors) : ExecBegin(e) \/ \E ok \in BOOLEAN : ExecStage(e, ok)

NextFault ==
    \/ \E p \in {1, 3}, u \in Users : TriggerBuild(p, u, "abc123", LifeBuilds)
    \/ ExecutorStep
    \/ \E e \in BagToSet(executors), fault \in {"stage", "commit"} : ExecFault(e, fault)

SpecFault == Init /\ [][NextFault]_vars /\ WF_vars(ExecutorStep)

(* The two creation paths, one call at a time: BuildService.create_build   *)
(* and the trigger endpoint (whose executors have not run yet).            *)
NextNumbers ==
    \/ \E p \in {1, 2} : allocs = EmptyBag /\ CreateBuildBegin(p, "manual", "abc123", NumberBuilds)
    \/ \E a \in BagToSet(allocs) : CreateBuildCommit(a)
    \/ \E p \in {1, 2} : allocs = EmptyBag /\ TriggerBuild(p, 1, "abc123", NumberBuilds)

SpecNumbers == Init /\ [][NextNumbers]_vars

(* The trigger endpoint with the two executors of each build and nothing   *)
(* else.                                                                   *)
NextExec ==
    \/ \E p \in {1, 3}, u \in Users : TriggerBuild(p, u, "abc123", ExecBuilds)
    \/ \E e \in BagToSet(executors) : ExecBegin(e)
    \/ \E e \in BagToSet(executors), ok \in BOOLEAN : ExecStage(e, ok)

SpecExec == Init /\ [][NextExec]_vars

----------------------------------------------------------------------------
(* The periodic queue check (beat schedule: every 30 seconds).             *)

(* _check_queued_builds lines 179-187: the ids of the first n pending      *)
(* builds from row `from` on, in created_at order, which is the order of   *)
(* insertion.  cleanup_old_builds archives success and failed builds only, *)
(* so the archived filter passes every pending build.                      *)
RECURSIVE PendingBuilds(_, _)
PendingBuilds(from, n) ==
    IF n = 0 \/ from > Len(builds) THEN <<>>
    ELSE IF builds[from].status = "pending"
         THEN <<from>> \o PendingBuilds(from + 1, n - 1)
         ELSE PendingBuilds(from + 1, n)

Runners == {e \in BagToSet(executors) : e.kind = "runner"}

(* the queue check selecting the running builds instead of the pending ones *)
CheckQueuedBuilds_SelectsRunning ==
    /\ queueCheck = <<>>
    /\ Runners = {}
    /\ Running # {}
    /\ queueCheck' = <<CHOOSE b \in Running : TRUE>>
    /\ UNCHANGED <<builds, buildLogs, executors, allocs, events, tasks, resp, socketVars>>

(* check_queued_builds, _check_queued_builds lines 173-187: one run of the *)
(* periodic task selects its builds.  The worker runs one check at a time. *)
CheckQueuedBuilds ==
    /\ queueCheck = <<>>
    /\ Runners = {}
    /\ PendingBuilds(1, MAX_CONCURRENT_BUILDS) # <<>>
    /\ queueCheck' = PendingBuilds(1, MAX_CONCURRENT_BUILDS)
    /\ UNCHANGED <<builds, buildLogs, executors, allocs, events, tasks, resp, socketVars>>

(* _check_queued_builds lines 190-192: the loop hands the next selected    *)
(* build to BuildRunner.run_build once the previous call has returned      *)
CheckQueuedBuildsRun ==
    /\ queueCheck # <<>>
    /\ Runners = {}
    /\ executors' = executors (+) SetToBag({Coroutine(Head(queueCheck), "runner")})
    /\ queueCheck' = Tail(queueCheck)
    /\ UNCHANGED <<builds, buildLogs, allocs, events, tasks, resp, socketVars>>

(* BuildRunner.run_build, whose callers hand it a pending build: the       *)
(* executor takes the build to running                                     *)
RunBuildBegin(e) ==
    /\ BagIn(e, executors)
    /\ e.kind = "runner"
    /\ e.pc = 0
    /\ builds' = [builds EXCEPT ![e.build].status = "running",
                                ![e.build].started_at = @ + 1]
    /\ executors' = (executors (-) SetToBag({e})) (+) SetToBag({[e EXCEPT !.pc = 1]})
    /\ UNCHANGED <<buildLogs, queueCheck, allocs, events, tasks, resp, socketVars>>

(* BuildRunner.run_build: one stage.  A failing stage ends the run with    *)
(* failed and the error_message naming the stage, the last stage with      *)
(* success; every stage writes a log row.                                  *)
RunBuildStage(e, ok) ==
    /\ BagIn(e, executors)
    /\ e.kind = "runner"
    /\ e.pc \in 1..NumStages
    /\ LET rest == executors (-) SetToBag({e})
       IN  IF ~ok
           THEN /\ builds' = [builds EXCEPT
                      ![e.build].status = "failed",
                      ![e.build].error_message = stages[e.pc],
                      ![e.build].completed_at = @ + 1]
                /\ buildLogs' = AddBuildLog(e.build, stages[e.pc], "error")
                /\ executors' = rest
           ELSE IF e.pc = NumStages
           THEN /\ builds' = [builds EXCEPT
                      ![e.build].status = "success",
                      ![e.build].completed_at = @ + 1]
                /\ buildLogs' = AddBuildLog(e.build, stages[e.pc], "info")
                /\ executors' = rest
           ELSE /\ buildLogs' = AddBuildLog(e.build, stages[e.pc], "info")
                /\ executors' = rest (+) SetToBag({[e EXCEPT !.pc = e.pc + 1]})
                /\ UNCHANGED builds
    /\ UNCHANGED <<queueCheck, allocs, events, tasks, resp, socketVars>>

(* Builds created by BuildService.create_build wait for the queue check.   *)
(* The beat fires the check again and again, and the worker runs each      *)
(* coroutine until it returns.                                             *)
QueueStep ==
    \/ CheckQueuedBuilds
    \/ CheckQueuedBuildsRun
    \/ \E e \in Runners : RunBuildBegin(e)
    \/ \E e \in Runners, ok \in BOOLEAN : RunBuildStage(e, ok)

NextQueue ==
    \/ allocs = EmptyBag /\ CreateBuildBegin(1, "manual", "abc123", QueueBuilds)
    \/ \E a \in BagToSet(allocs) : CreateBuildCommit(a)
    \/ QueueStep

SpecQueue == Init /\ [][NextQueue]_vars /\ WF_vars(QueueStep)

----------------------------------------------------------------------------
(* Live updates: ConnectionManager.                                        *)

(* ConnectionManager.connect *)
Connect(w, p, u) ==
    /\ sockets[w].state = "new"
    /\ manager' = [manager EXCEPT
           !.active_connections[p] = [present |-> TRUE, list |-> Append(@.list, w)],
           !.user_connections[u] = [present |-> TRUE, set |-> @.set \cup {w}]]
    /\ sockets' = [sockets EXCEPT ![w] =
           [state |-> "open", project |-> p, user |-> u, received |-> {},
            since |-> Len(publishers)]]
    /\ UNCHANGED <<publishers, storeVars>>

(* the peer of an open socket goes away: from now on send_text raises and  *)
(* receive_text raises WebSocketDisconnect                                 *)
PeerGone(w) ==
    /\ sockets[w].state = "open"
    /\ sockets' = [sockets EXCEPT ![w].state = "gone"]
    /\ UNCHANGED <<manager, publishers, storeVars>>

(* WebSocketManager.handle_connection lines 151-152: receive_text raises   *)
(* WebSocketDisconnect and the handler calls ConnectionManager.disconnect. *)
(* list.remove raises ValueError when a broadcast has already removed the  *)
(* socket; the handler then ends before it reaches user_connections.       *)
HandleDisconnect(w) ==
    /\ sockets[w].state = "gone"
    /\ sockets' = [sockets EXCEPT ![w].state = "done"]
    /\ LET p  == sockets[w].project
           u  == sockets[w].user
           ac == manager.active_connections[p]
           uc == manager.user_connections[u]
           list == Remove(ac.list, w)
           set  == uc.set \ {w}
           raises == ac.present /\ w \notin Range(ac.list)
           delP == ac.present /\ list = <<>>
           delU == uc.present /\ set = {}
       IN  IF raises
           THEN UNCHANGED <<manager, publishers>>
           ELSE \* a broadcast iterating over a list or set that is deleted from
                \* its dict goes on over an object that is empty and no longer
                \* the dict's
                /\ manager' = [manager EXCEPT
                      !.active_connections[p] =
                          IF ~ac.present \/ delP THEN NoList ELSE [@ EXCEPT !.list = list],
                      !.user_connections[u] =
                          IF ~uc.present \/ delU THEN NoSet ELSE [@ EXCEPT !.set = set]]
                /\ publishers' =
                      [n \in DOMAIN publishers |->
                          IF /\ publishers[n].status = "sending"
                             /\ \/ delP /\ publishers[n].kind = "project"
                                        /\ publishers[n].topic = p
                                \/ delU /\ publishers[n].kind = "user"
                                        /\ publishers[n].topic = u
                          THEN [publishers[n] EXCEPT !.detached = TRUE]
                          ELSE publishers[n]]
    /\ UNCHANGED storeVars

(* a broadcast call: cur is the connection whose send_text it awaits, i    *)
(* the index of cur in the list (project), seen the connections the set    *)
(* iterator has yielded and size the size of the set when the iteration    *)
(* began (user), disconnected the local list of failed connections, conns  *)
(* the local unique_connections of broadcast_to_all                        *)
Publisher(kind, topic, msg, cur, size, status) ==
    [kind |-> kind, topic |-> topic, msg |-> msg, cur |-> cur, i |-> 1,
     seen |-> IF cur = NULL THEN {} ELSE {cur}, size |-> size, detached |-> FALSE,
     disconnected |-> <<>>, conns |-> {}, status |-> status, error |-> None]

(* broadcast_to_project lines 52-60: up to the first await *)
BroadcastToProject(p) ==
    /\ Len(publishers) < MaxPublishes
    /\ LET ac  == manager.active_connections[p]
           msg == Len(publishers) + 1
       IN  publishers' = Append(publishers,
               IF ~ac.present \/ ac.list = <<>>
               THEN Publisher("project", p, msg, NULL, 0, "returned")
               ELSE Publisher("project", p, msg, ac.list[1], 0, "sending"))
    /\ UNCHANGED <<manager, sockets, storeVars>>

(* broadcast_to_user lines 71-79: up to the first await; the set iterator  *)
(* yields the connections in an order of its own                           *)
BroadcastToUser(u, first) ==
    /\ Len(publishers) < MaxPublishes
    /\ LET uc  == manager.user_connections[u]
           msg == Len(publishers) + 1
       IN  IF ~uc.present \/ uc.set = {}
           THEN /\ first = NULL
                /\ publishers' = Append(publishers,
                       Publisher("user", u, msg, NULL, 0, "returned"))
           ELSE /\ first \in uc.set
                /\ publishers' = Append(publishers,
                       Publisher("user", u, msg, first, Cardinality(uc.set), "sending"))
    /\ UNCHANGED <<manager, sockets, storeVars>>

(* broadcast_to_project lines 66-67: the clean-up loop over the local list *)
(* on the dict entry as it is now.  A key that has been deleted raises     *)
(* KeyError, a connection that is no longer in the list raises ValueError. *)
RECURSIVE CleanUpList(_, _)
CleanUpList(ac, disconnected) ==
    IF disconnected = <<>> THEN [entry |-> ac, error |-> None]
    ELSE IF ~ac.present THEN [entry |-> ac, error |-> "KeyError"]
    ELSE IF Head(disconnected) \notin Range(ac.list)
    THEN [entry |-> ac, error |-> "ValueError"]
    ELSE CleanUpList([ac EXCEPT !.list = Remove(@, Head(disconnected))],
                     Tail(disconnected))

(* broadcast_to_user lines 85-86: set.discard never raises, a deleted key  *)
(* raises KeyError                                                         *)
CleanUpSet(uc, disconnected) ==
    IF disconnected = <<>> THEN [entry |-> uc, error |-> None]
    ELSE IF ~uc.present THEN [entry |-> uc, error |-> "KeyError"]
    ELSE [entry |-> [uc EXCEPT !.set = @ \ Range(disconnected)], error |-> None]

(* the outcome of the awaited send_text, by the state of the socket when   *)
(* the call completes                                                      *)
SendRaises(w) == sockets[w].state # "open"

(* broadcast_to_project lines 58-67, from the completion of one send_text  *)
(* to the next await or to the return.  The list iterator keeps an index   *)
(* into the list as it is now.                                             *)
ProjectSendDone(n) ==
    /\ n \in DOMAIN publishers
    /\ publishers[n].status = "sending"
    /\ publishers[n].kind = "project"
    /\ LET pub  == publishers[n]
           ac   == manager.active_connections[pub.topic]
           list == IF pub.detached THEN <<>> ELSE ac.list
           disc == IF SendRaises(pub.cur) THEN Append(pub.disconnected, pub.cur)
                   ELSE pub.disconnected
           end  == CleanUpList(ac, disc)
       IN  /\ sockets' = IF SendRaises(pub.cur) THEN sockets
                         ELSE [sockets EXCEPT ![pub.cur].received = @ \cup {pub.msg}]
           /\ IF pub.i + 1 <= Len(list)
              THEN /\ publishers' = [publishers EXCEPT
                          ![n].i = pub.i + 1,
                          ![n].cur = list[pub.i + 1],
                          ![n].disconnected = disc]
                   /\ UNCHANGED manager
              ELSE /\ publishers' = [publishers EXCEPT
                          ![n].cur = NULL,
                          ![n].disconnected = disc,
                          ![n].status = IF end.error = None THEN "returned" ELSE "raised",
                          ![n].error = end.error]
                   /\ manager' = [manager EXCEPT
                          !.active_connections[pub.topic] = end.entry]
    /\ UNCHANGED storeVars

(* broadcast_to_user lines 77-86, from the completion of one send_text to  *)
(* the next await or to the return.  The set iterator raises RuntimeError  *)
(* when the set has changed size since the iteration began; the for        *)
(* statement is outside the try, so the call raises.                       *)
UserSendDone(n, next) ==
    /\ n \in DOMAIN publishers
    /\ publishers[n].status = "sending"
    /\ publishers[n].kind = "user"
    /\ LET pub  == publishers[n]
           uc   == manager.user_connections[pub.topic]
           set  == IF pub.detached THEN {} ELSE uc.set
           disc == IF SendRaises(pub.cur) THEN Append(pub.disconnected, pub.cur)
                   ELSE pub.disconnected
           end  == CleanUpSet(uc, disc)
       IN  /\ sockets' = IF SendRaises(pub.cur) THEN sockets
                         ELSE [sockets EXCEPT ![pub.cur].received = @ \cup {pub.msg}]
           /\ IF Cardinality(set) # pub.size
              THEN /\ next = NULL
                   /\ publishers' = [publishers EXCEPT
                          ![n].cur = NULL,
                          ![n].disconnected = disc,
                          ![n].status = "raised",
                          ![n].error = "RuntimeError"]
                   /\ UNCHANGED manager
              ELSE IF set \ pub.seen # {}
              THEN /\ next \in set \ pub.seen
                   /\ publishers' = [publishers EXCEPT
                          ![n].cur = next,
                          ![n].seen = @ \cup {next},
                          ![n].disconnected = disc]
                   /\ UNCHANGED manager
              ELSE /\ next = NULL
                   /\ publishers' = [publishers EXCEPT
                          ![n].cur = NULL,
                          ![n].disconnected = disc,
                          ![n].status = IF end.error = None THEN "returned" ELSE "raised",
                          ![n].error = end.error]
                   /\ manager' = [manager EXCEPT
                          !.user_connections[pub.topic] = end.entry]
    /\ UNCHANGED storeVars

(* Clients connect and leave while messages are published to project and   *)
(* user topics.  The sockets are interchangeable: they connect in the      *)
(* order of their numbers.                                                 *)
NextSocket ==
    \/ \E w \in SocketIds : (\A v \in 1..(w - 1) : sockets[v].state # "new") /\ Connect(w, 1, 1)
    \/ \E w \in SocketIds : PeerGone(w)
    \/ \E w \in SocketIds : HandleDisconnect(w)
    \/ BroadcastToProject(1)
    \/ \E first \in SocketIds \cup {NULL} : BroadcastToUser(1, first)
    \/ \E n \in 1..MaxPublishes : ProjectSendDone(n)
    \/ \E n \in 1..MaxPublishes, next \in SocketIds \cup {NULL} : UserSendDone(n, next)

SpecSocket == Init /\ [][NextSocket]_vars

(* the keys of active_connections *)
PresentKeys(ac) == {p \in DOMAIN ac : ac[p].present}

(* the orders in which a dict with the keys S can hold them *)
Orders(S) ==
    {o \in UNION {[1..n -> S] : n \in {Cardinality(S)}} : Range(o) = S}

(* broadcast_build_update lines 176-189 and broadcast_to_all lines 90-101,  *)
(* up to the first await, for an update about a build of project p: the    *)
(* connections of every key are collected, and list(set(...)) puts them in *)
(* an order of its own.                                                    *)
BroadcastBuildUpdate(p, first) ==
    /\ Len(publishers) < MaxPublishes
    /\ LET ac    == manager.active_connections
           conns == UNION {Range(ac[k].list) : k \in PresentKeys(ac)}
           msg   == Len(publishers) + 1
       IN  IF conns = {}
           THEN /\ first = NULL
                /\ publishers' = Append(publishers,
                       Publisher("all", p, msg, NULL, 0, "returned"))
           ELSE /\ first \in conns
                /\ publishers' = Append(publishers,
                       [Publisher("all", p, msg, first, 0, "sending")
                           EXCEPT !.conns = conns])
    /\ UNCHANGED <<manager, sockets, storeVars>>

(* broadcast_to_all lines 108-113: for each failed connection, remove it   *)
(* from the list of every key; then, outside the inner loop, delete the    *)
(* key the inner loop ended on when its list is empty.  order is the order *)
(* of the keys in the dict.  With no key left, project_id is bound to      *)
(* nothing and the del raises.                                             *)
RECURSIVE CleanUpAll(_, _, _)
CleanUpAll(ac, order, disconnected) ==
    IF disconnected = <<>> THEN [dict |-> ac, error |-> None]
    ELSE IF order = <<>> THEN [dict |-> ac, error |-> "UnboundLocalError"]
    ELSE LET c    == Head(disconnected)
             rem  == [k \in DOMAIN ac |->
                         IF ac[k].present THEN [ac[k] EXCEPT !.list = Remove(@, c)]
                         ELSE ac[k]]
             last == order[Len(order)]
         IN  IF rem[last].list = <<>>
             THEN CleanUpAll([rem EXCEPT ![last] = NoList],
                             SubSeq(order, 1, Len(order) - 1), Tail(disconnected))
             ELSE CleanUpAll(rem, order, Tail(disconnected))

(* broadcast_to_all lines 101-113, from the completion of one send_text to *)
(* the next await or to the return                                         *)
AllSendDone(n, next, order) ==
    /\ n \in DOMAIN publishers
    /\ publishers[n].status = "sending"
    /\ publishers[n].kind = "all"
    /\ LET pub  == publishers[n]
           disc == IF SendRaises(pub.cur) THEN Append(pub.disconnected, pub.cur)
                   ELSE pub.disconnected
           end  == CleanUpAll(manager.active_connections, order, disc)
       IN  /\ sockets' = IF SendRaises(pub.cur) THEN sockets
                         ELSE [sockets EXCEPT ![pub.cur].received = @ \cup {pub.msg}]
           /\ IF pub.conns \ pub.seen # {}
              THEN /\ next \in pub.conns \ pub.seen
                   /\ order = <<>>
                   /\ publishers' = [publishers EXCEPT
                          ![n].cur = next,
                          ![n].seen = @ \cup {next},
                          ![n].disconnected = disc]
                   /\ UNCHANGED manager
              ELSE /\ next = NULL
                   /\ order \in Orders(PresentKeys(manager.active_connections))
                   /\ publishers' = [publishers EXCEPT
                          ![n].cur = NULL,
                          ![n].disconnected = disc,
                          ![n].status = IF end.error = None THEN "returned" ELSE "raised",
                          ![n].error = end.error]
                   /\ manager' = [manager EXCEPT !.active_connections = end.dict]
    /\ UNCHANGED storeVars

(* Clients of two users watch a project each while updates about builds of *)
(* project 1 are published.                                                *)
NextTopic ==
    \/ \E w \in 1..TopicSockets, p \in {1, 3} :
          /\ \A v \in 1..(w - 1) : sockets[v].state # "new"
          /\ Connect(w, p, projects[p].owner_id)
    \/ \E w \in SocketIds : PeerGone(w)
    \/ \E w \in SocketIds : HandleDisconnect(w)
    \/ \E first \in SocketIds \cup {NULL} : BroadcastBuildUpdate(1, first)
    \/ \E n \in 1..MaxPublishes, next \in SocketIds \cup {NULL} :
          \E order \in Orders(PresentKeys(manager.active_connections)) \cup {<<>>} :
              AllSendDone(n, next, order)

SpecTopic == Init /\ [][NextTopic]_vars

----------------------------------------------------------------------------
(* C1: in every reachable state at most MAX_CONCURRENT_BUILDS builds have  *)
(* status running.                                                         *)
C1_RunningWithinCap == Cardinality(Running) <= MAX_CONCURRENT_BUILDS

(* C2: a build whose status is success, failed, cancelled or timeout keeps *)
(* that status in every later step.                                        *)
C2_TerminalIsFinal ==
    [][\A b \in BuildIds :
          builds[b].status \in Terminal => builds'[b].status = builds[b].status]_vars

(* C3: two builds of one project created by BuildService.create_build      *)
(* never carry the same build number.                                      *)
C3_DistinctBuildNumbers ==
    \A b1, b2 \in BuildIds :
        (b1 # b2 /\ builds[b1].project_id = builds[b2].project_id
                 /\ builds[b1].build_number # NoNumber
                 /\ builds[b2].build_number # NoNumber)
        => builds[b1].build_number # builds[b2].build_number

C8_CancelOnlyNonTerminal ==
    [][\A b \in BuildIds :
          CancelBuild(b) =>
              /\ builds' # builds => builds[b].status \in {"pending", "running"}
              /\ builds[b].status \in Terminal =>
                    /\ resp'.code = "ValueError"
                    /\ builds'[b] = builds[b]
                    /\ buildLogs'[b] = buildLogs[b]]_vars

C8_Witness ==
    /\ resp.op = "cancel_build"
    /\ resp.pre = "cancelled"
    /\ resp.code = "ValueError"
    /\ builds[resp.id].completed_at = 1

----------------------------------------------------------------------------
WebhookBuildsFor(commit) ==
    {b \in BuildIds : builds[b].trigger_type = "webhook" /\ builds[b].commit_hash = commit}

(* the events process_github_webhook recorded for a push to the monitored  *)
(* branch of project 1 *)
ProcessedPushes ==
    {e \in EventIds : /\ events[e].payload = PushMain
                      /\ events[e].delivery_id.src = "token"
                      /\ events[e].status # "received"}

(* C4: once a push delivery with delivery id d1 has been processed, any    *)
(* number of times, exactly one Build exists for it.                       *)
C4_OneBuildPerDelivery ==
    (\E e \in ProcessedPushes : events[e].header_delivery = "d1")
    => Cardinality(WebhookBuildsFor(PushMain.head_commit)) = 1

SecretOf(p) == IF p = NULL THEN None ELSE projects[p].webhook_secret

(* the delivery carries a signature header that is not                     *)
(* sha256=HMAC-SHA256(secret, raw body) for the secret of project p        *)
Mismatch(d, p) ==
    /\ d.body.json = "object"
    /\ SecretOf(p) # None
    /\ d.sig.present
    /\ d.sig # Signature(TRUE, SecretOf(p), d.body)

RecordsFailedVerification ==
    /\ Len(events') = Len(events) + 1
    /\ SubSeq(events', 1, Len(events)) = events
    /\ events'[Len(events')].status = "failed_verification"

Retryable(id) ==
    /\ id \in EventIds
    /\ events[id].status = "failed"
    /\ events[id].delivery_attempts < max_retries

C9_RetryOnlyFailedBelowCap ==
    [][/\ \A id \in 1..MaxDeliveries, u \in Users :
             RetryWebhook(id, u) =>
                 /\ resp'.code = "202" => Retryable(id)
                 /\ ~Retryable(id) =>
                       /\ resp'.code \in {"400", "403", "404"}
                       /\ events' = events /\ tasks' = tasks
       /\ \A t \in RetryTasks :
             (RetryFailedWebhook(t) /\ events' # events) => Retryable(t.webhook_id)]_vars

C9_Witness ==
    /\ resp.op = "retry" /\ resp.code = "400"
    /\ resp.id \in EventIds
    /\ events[resp.id].status = "failed"
    /\ events[resp.id].delivery_attempts = max_retries

(* C10: once a correctly signed push to the monitored branch of project 1  *)
(* has been processed, a Build of project 1 with trigger_type webhook and  *)
(* the pushed head commit exists.                                          *)
C10_SignedPushCreatesBuild ==
    \A e \in ProcessedPushes :
        events[e].signature = Signature(TRUE, projects[1].webhook_secret, PushMain)
        => \E b \in WebhookBuildsFor("abc123") : builds[b].project_id = 1
----------------------------------------------------------------------------
(* the branch a push ref names: the ref without its leading refs/heads/ *)
PushedBranch(ref) ==
    IF Len(ref) >= 3 /\ ref[1] = "refs" /\ ref[2] = "heads"
    THEN SubSeq(ref, 3, Len(ref)) ELSE ref

(* C11: a processed push to project 1 for a branch other than its          *)
(* monitored branch is recorded with status processed and linked to the    *)
(* project, and no webhook build exists for it.                            *)
C11_OtherBranchProcessed ==
    \A e \in EventIds :
        (/\ events[e].event_type = <<"github", "push">>
         /\ events[e].delivery_id.src = "token"
         /\ events[e].payload.repo = projects[1].repository_url
         /\ PushedBranch(events[e].payload.ref) # projects[1].branch)
        => /\ events[e].status = "processed"
           /\ events[e].project_id = 1
           /\ WebhookBuildsFor(events[e].payload.head_commit) = {}
----------------------------------------------------------------------------
StatusOf(conclusion) == IF conclusion = "success" THEN "success" ELSE "failed"

(* the step reconciles build b with the run the body reports *)
ReconciledBy(b, body) ==
    /\ builds'[b].status = StatusOf(body.workflow_run.conclusion)
    /\ builds'[b].external_url = body.workflow_run.html_url
    /\ builds'[b].completed_at # NULL
    /\ builds'[b].status # "running"

(* the builds of project p that carry the commit of the run *)
Matching(body, p) ==
    {b \in BuildIds : /\ builds[b].project_id = p
                      /\ builds[b].commit_hash = body.workflow_run.head_sha}

----------------------------------------------------------------------------
(* C13: a build that is running eventually has a terminal status, faults   *)
(* of its executors included.                                              *)
C13_RunningEndsTerminal ==
    \A b \in 1..LifeBuilds :
        (b \in Running) ~> (b \in BuildIds /\ builds[b].status \in Terminal)
----------------------------------------------------------------------------
(* C14: a manual trigger by the owner of an existing project that is not   *)
(* archived appends exactly one build row, of that project and with status *)
(* pending, changes no other row, and answers 200 with the id of that row  *)
(* (the record returned is the row as trigger_build refreshed it).         *)
C14_TriggerCreatesOnePending ==
    [][\A p \in ProjectIds, u \in Users :
          (/\ TriggerBuild(p, u, "abc123", LifeBuilds)
           /\ projects[p].owner_id = u
           /\ projects[p].status # "archived") =>
              /\ Len(builds') = Len(builds) + 1
              /\ SubSeq(builds', 1, Len(builds)) = builds
              /\ builds'[Len(builds')].project_id = p
              /\ builds'[Len(builds')].status = "pending"
              /\ resp'.code = "200"
              /\ resp'.id = Len(builds')]_vars

C14_Witness ==
    /\ resp.op = "trigger" /\ resp.code = "200"
    /\ resp.id \in BuildIds
    /\ builds[resp.id].project_id = 1
    /\ builds[resp.id].status = "pending"
----------------------------------------------------------------------------
(* C15: without a reconciliation event, a pending build becomes running or *)
(* cancelled and nothing else, and a running build becomes success,        *)
(* failed, timeout or cancelled and nothing else.                          *)
C15_StatusPath ==
    [][\A b \in BuildIds :
          /\ builds[b].status = "pending" =>
                builds'[b].status \in {"pending", "running", "cancelled"}
          /\ builds[b].status = "running" =>
                builds'[b].status \in {"running", "success", "failed", "timeout",
                                       "cancelled"}]_vars
----------------------------------------------------------------------------
(* C16: completed_at, which every writer of a terminal status sets with    *)
(* it, is written at most once per build.                                  *)
C16_TerminalWrittenOnce ==
    \A b \in BuildIds : builds[b].completed_at <= 1

(* C18: started_at, which every pending -> running transition sets, is     *)
(* written at most once per build, and a step sets a build running only    *)
(* when it is pending.                                                     *)
C18_AdmittedOnce ==
    [][\A b \in BuildIds :
          builds'[b].started_at # builds[b].started_at =>
              /\ builds[b].status = "pending"
              /\ builds[b].started_at = NULL]_vars
----------------------------------------------------------------------------
SequenceOf(b) == ParseInt(builds[b].build_number.digits)

(* C17: the build numbers of one project increase strictly in the order of *)
(* creation, start at 1, and are the project prefix followed by the        *)
(* sequence number in at least three digits.                               *)
C17_NumbersIncrease ==
    \A b \in BuildIds :
        builds[b].build_number # NoNumber =>
            /\ builds[b].build_number.abbr = ProjectAbbr(projects[builds[b].project_id].name)
            /\ Len(builds[b].build_number.digits) >= 3
            /\ SequenceOf(b) >= 1
            /\ \A a \in BuildIds :
                  (/\ a < b
                   /\ builds[a].project_id = builds[b].project_id
                   /\ builds[a].build_number # NoNumber)
                  => SequenceOf(a) < SequenceOf(b)
----------------------------------------------------------------------------
(* the events of earlier deliveries of the event of task t whose           *)
(* processing reconciled a build                                           *)
ProcessedBefore(t) ==
    {e \in EventIds : /\ events[e].header_delivery = t.header_delivery
                      /\ events[e].payload = t.payload
                      /\ events[e].status = "processed"
                      /\ events[e].build_id # NULL}

(* C19: once a delivery of a run-completion event has been processed and   *)
(* has reconciled a build, processing a further delivery of the same event *)
(* changes no build.                                                       *)
C19_RedeliveryChangesNothing ==
    [][\A t \in BagToSet(tasks), p \in ProjectIds \cup {NULL} :
          (/\ ProcessGithubWebhook(t, p)
           /\ t.event_type = "workflow_run"
           /\ ProcessedBefore(t) # {}) => builds' = builds]_vars

(* C20: once a build that was running is cancelled, no executor runs a     *)
(* further stage of it and its status stays cancelled.                     *)
C20_CancelStopsExecutor ==
    [][\A b \in BuildIds :
          (builds[b].status = "cancelled" /\ builds[b].started_at # NULL) =>
              /\ builds'[b].status = "cancelled"
              /\ \A e \in BagToSet(executors), ok \in BOOLEAN :
                    e.build = b => ~ExecStage(e, ok)]_vars
----------------------------------------------------------------------------
StageNames == {stages[k] : k \in 1..NumStages}

(* C21: a build that an executor set to failed carries an error_message    *)
(* that identifies the failing stage.                                      *)
C21_FailedNamesStage ==
    \A b \in BuildIds :
        builds[b].status = "failed" => builds[b].error_message \in StageNames

IsPrefix(s, t) == Len(s) <= Len(t) /\ SubSeq(t, 1, Len(s)) = s

(* C22: the log of a build only grows: in every step the log before the    *)
(* step is a prefix of the log after it.                                   *)
C22_LogOnlyGrows ==
    [][\A b \in BuildIds : IsPrefix(builds[b].logs, builds'[b].logs)]_vars

(* C23: an executor whose build has run for longer than the configured     *)
(* BUILD_TIMEOUT_SECONDS runs no further stage of it.                      *)
C23_TimeoutAborts ==
    [][\A e \in BagToSet(executors), ok \in BOOLEAN, limit \in TimeoutSettings :
          (e.pc \in 1..NumStages /\ Elapsed(e.pc) > limit) => ~ExecStage(e, ok)]_vars

(* C25: builds are admitted in the order they were created: no step sets a *)
(* build running while an earlier-created build is still pending.          *)
C25_FifoAdmission ==
    [][\A a \in BuildIds, b \in BuildIds :
          (/\ a < b
           /\ builds[a].status = "pending"
           /\ builds[a].started_at = NULL
           /\ builds[b].status = "pending"
           /\ builds'[b].status = "running") => builds'[a].status # "pending"]_vars

----------------------------------------------------------------------------
(* the payload names a repository that no webhook-enabled project has *)
Unmatched(body) ==
    /\ body.repo # <<>>
    /\ \A p \in ProjectIds :
          ~(Ilike(projects[p].repository_url, body.repo) /\ projects[p].webhook_enabled)

(* C26: an event for a repository that no webhook-enabled project matches  *)
(* ends skipped with project_id null.                                      *)
C26_UnmatchedSkipped ==
    \A e \in EventIds :
        Unmatched(events[e].payload) =>
            events[e].status = "skipped" /\ events[e].project_id = NULL

EventStatuses ==
    {"received", "processing", "processed", "failed", "failed_verification", "skipped"}

(* C27: the status of every webhook event is one of received, processing,  *)
(* processed, failed, failed_verification, skipped.                        *)
C27_StatusInDomain ==
    \A e \in EventIds : events[e].status \in EventStatuses

(* C28 as stated: the background retry of every accepted retry request     *)
(* increases delivery_attempts of its event by exactly 1 and moves         *)
(* next_retry_at later, and delivery_attempts never exceeds 3.             *)
C28_EveryAcceptedRetryCounts ==
    [][/\ \A t \in RetryTasks :
             RetryFailedWebhook(t) =>
                 /\ events'[t.webhook_id].delivery_attempts
                        = events[t.webhook_id].delivery_attempts + 1
                 /\ events'[t.webhook_id].next_retry_at
                        > events[t.webhook_id].next_retry_at
       /\ \A e \in DOMAIN events' : events'[e].delivery_attempts <= max_retries]_vars

(* C28: delivery_attempts changes only by a retry that finds its event     *)
(* failed and below the cap, which increases it by exactly 1 and moves     *)
(* next_retry_at later; a background retry that finds its event no longer  *)
(* failed, or at the cap, changes nothing; delivery_attempts never exceeds *)
(* 3.                                                                      *)
C28_EffectiveRetryCounts ==
    [][/\ \A e \in EventIds :
             events'[e].delivery_attempts # events[e].delivery_attempts =>
                 /\ events[e].status = "failed"
                 /\ events[e].delivery_attempts < max_retries
                 /\ events'[e].delivery_attempts = events[e].delivery_attempts + 1
                 /\ events'[e].next_retry_at > events[e].next_retry_at
       /\ \A t \in RetryTasks :
             (/\ RetryFailedWebhook(t)
              /\ \/ events[t.webhook_id].status # "failed"
                 \/ events[t.webhook_id].delivery_attempts >= max_retries)
             => events' = events
       /\ \A e \in DOMAIN events' : events'[e].delivery_attempts <= max_retries]_vars

(* a retry has counted, and a second accepted request for the same event   *)
(* is still to run                                                         *)
C28_Witness ==
    \E t \in RetryTasks :
        /\ events[t.webhook_id].status = "pending_retry"
        /\ events[t.webhook_id].delivery_attempts >= 1

(* C29: an event that an accepted retry has taken out of failed is         *)
(* eventually processed again and reaches processed or failed.             *)
C29_RetryRevives ==
    \A e \in 1..MaxDeliveries :
        (e \in EventIds /\ events[e].status = "pending_retry")
            ~> (e \in EventIds /\ events[e].status \in {"processed", "failed"})
----------------------------------------------------------------------------
(* the connections of the topic of publisher pub as the manager has them *)
TopicConnections(pub) ==
    IF pub.kind = "project"
    THEN Range(manager.active_connections[pub.topic].list)
    ELSE manager.user_connections[pub.topic].set

(* C30: a publish call in which a send raised, and which has ended, has    *)
(* not raised itself; the connections whose send raised are no longer      *)
(* connections of the topic; and every open connection of the topic that   *)
(* connected before the call has received its message.                     *)
C30_PublishBestEffort ==
    \A n \in DOMAIN publishers :
        (publishers[n].status # "sending" /\ publishers[n].disconnected # <<>>) =>
            /\ publishers[n].status = "returned"
            /\ Range(publishers[n].disconnected) \cap TopicConnections(publishers[n]) = {}
            /\ \A w \in TopicConnections(publishers[n]) :
                  (sockets[w].state = "open" /\ sockets[w].since < n)
                  => publishers[n].msg \in sockets[w].received
----------------------------------------------------------------------------
(* C39: the log of a build has no "stage completed successfully" entry for *)
(* a stage at which the executor failed the build.                         *)
C39_FailedStageNotCompleted ==
    \A b \in BuildIds : \A k \in 1..NumStages :
        LogEntry(stages[k], "error") \in Range(builds[b].logs)
            => [stage |-> stages[k], kind |-> "completed", pct |-> 100]
                   \notin Range(builds[b].logs)

(* C35: completed_at is set exactly when the status is terminal, and a     *)
(* running build has started_at set.                                       *)
C35_TimestampsMatchStatus ==
    \A b \in BuildIds :
        /\ (builds[b].completed_at # NULL) <=> (builds[b].status \in Terminal)
        /\ builds[b].status = "running" => builds[b].started_at # NULL
----------------------------------------------------------------------------
Inactive(p) == p \notin ProjectIds \/ projects[p].status # "active"

(* C33: every build belongs to an active project; a trigger or a           *)
(* create_build call for an archived or missing project answers with an    *)
(* error and changes no table; processing a push changes no build of an    *)
(* archived project's repository.                                          *)
C33_NoBuildForInactiveProject ==
    [][/\ \A b \in DOMAIN builds' : ~Inactive(builds'[b].project_id)
       /\ \A p \in RequestedProjects, u \in Users :
             (Inactive(p) /\ TriggerBuild(p, u, "abc123", GateBuilds)) =>
                 /\ resp'.code \in {"404", "400"}
                 /\ UNCHANGED <<builds, buildLogs, executors, allocs, events, tasks>>
       /\ \A p \in RequestedProjects :
             (Inactive(p) /\ CreateBuildBegin(p, "manual", "abc123", GateBuilds)) =>
                 /\ resp'.code = "ValueError"
                 /\ UNCHANGED <<builds, buildLogs, executors, allocs, events, tasks>>
       /\ \A t \in BagToSet(tasks), p \in ProjectIds \cup {NULL} :
             (t.payload = PushOld /\ ProcessGithubWebhook(t, p)) =>
                 UNCHANGED <<builds, buildLogs, executors, allocs>>]_vars

(* the owner's trigger on the archived project was refused, beside a       *)
(* processed push to its repository and a build of the active project      *)
C33_Witness ==
    /\ resp = [op |-> "trigger", code |-> "400", id |-> NULL, pre |-> None]
    /\ \E e \in EventIds : events[e].payload = PushOld /\ events[e].status = "processed"
    /\ builds # <<>>
----------------------------------------------------------------------------
(* the most recently created pending or running build of project p with    *)
(* the commit of the run, as a set: empty when there is none               *)
NewestOpen(body, p) ==
    LET open == {b \in BuildIds : /\ p # NULL
                                  /\ b \in Matching(body, p)
                                  /\ builds[b].status \in NonTerminal}
    IN  {b \in open : \A c \in open : c <= b}

(* C32: a step that processes a run-completion event, at the endpoint's    *)
(* background task or in the event task, changes no build other than the   *)
(* most recently created pending or running build of the resolved project  *)
(* with the event's head_sha, and creates none.                            *)
C32_ReconcilesNewestOpenOnly ==
    [][/\ \A t \in BagToSet(tasks), p \in ProjectIds \cup {NULL} :
             (ProcessGithubWebhook(t, p) /\ t.event_type = "workflow_run") =>
                 /\ Len(builds') = Len(builds)
                 /\ \A b \in BuildIds :
                       builds'[b] # builds[b] => b \in NewestOpen(t.payload, p)
       /\ \A t \in BagToSet(tasks) :
             (/\ ProcessEventParse(t)
              /\ events[t.webhook_id].event_type = <<"github", "workflow_run">>) =>
                 /\ Len(builds') = Len(builds)
                 /\ \A b \in BuildIds :
                       builds'[b] # builds[b] =>
                           b \in NewestOpen(events[t.webhook_id].payload,
                                            events[t.webhook_id].project_id)]_vars
----------------------------------------------------------------------------
(* C36: the signature of an event that created or reconciled a build, when *)
(* the event carries one and the build's project has a secret, is the      *)
(* HMAC of the body under the secret of the build's project.               *)
C36_VerifiedAgainstBuildProject ==
    \A e \in EventIds :
        events[e].build_id # NULL =>
            LET p == builds[events[e].build_id].project_id
            IN  (projects[p].webhook_secret # None /\ events[e].signature.present) =>
                    /\ events[e].signature.prefix
                    /\ VerifyGithubSignature(events[e].payload, events[e].signature,
                                             projects[p].webhook_secret)
----------------------------------------------------------------------------
(* C40: once the handler of a connection has returned, the websocket is in *)
(* no list of active_connections and in no set of user_connections, and    *)
(* the keys of its project and of its user map to no empty collection.     *)
C40_HandlerEndCleansRegistries ==
    \A w \in SocketIds :
        sockets[w].state = "done" =>
            LET ac == manager.active_connections[sockets[w].project]
                uc == manager.user_connections[sockets[w].user]
            IN  /\ \A p \in Topics : w \notin Range(manager.active_connections[p].list)
                /\ \A u \in Topics : w \notin manager.user_connections[u].set
                /\ ac.present => ac.list # <<>>
                /\ uc.present => uc.set # {}
----------------------------------------------------------------------------
(* C38: a message a connection has received is about its own topic: a      *)
(* message to a user went to a connection of that user, a message about a  *)
(* build of a project went to a connection registered for that project or  *)
(* for the owner of the project.                                           *)
C38_OnlyOwnTopic ==
    \A w \in SocketIds : \A n \in DOMAIN publishers :
        publishers[n].msg \in sockets[w].received =>
            IF publishers[n].kind = "user"
            THEN sockets[w].user = publishers[n].topic
            ELSE \/ sockets[w].project = publishers[n].topic
                 \/ sockets[w].user = projects[publishers[n].topic].owner_id
----------------------------------------------------------------------------
(* the build updates published so far for the project of build b *)
Published(b) ==
    {n \in DOMAIN publishers :
        publishers[n].kind = "all" /\ publishers[n].topic = builds[b].project_id}

(* C31: once a build has been created, an update for it is eventually      *)
(* published to the broadcaster.                                           *)
C31_TransitionPublished ==
    \A b \in 1..MaxAllocs :
        (b \in BuildIds) ~> (b \in BuildIds /\ Published(b) # {})
----------------------------------------------------------------------------
(* the builds that processing of event e inserted: webhook builds of its   *)
(* project for its commit                                                  *)
BuildsOfEvent(e) ==
    {b \in BuildIds :
        /\ builds[b].trigger_type = "webhook"
        /\ builds[b].project_id = events[e].project_id
        /\ builds[b].commit_hash = events[e].payload.head_commit}

----------------------------------------------------------------------------
TerminalEvent == {"processed", "failed", "skipped", "failed_verification"}

(* C34: a processing step leaves its event in a terminal status; when the  *)
(* dispatch raised, the event is failed with its error recorded, and the   *)
(* exception has ended there: the task is over, nothing of it remains to   *)
(* run.                                                                    *)
C34_ExceptionEndsInFailed ==
    [][/\ \A t \in BagToSet(tasks), p \in ProjectIds \cup {NULL} :
             ProcessGithubWebhook(t, p) =>
                 LET e == events'[Len(events')]
                 IN  /\ e.status \in TerminalEvent
                     /\ e.status = "failed" => e.error_message # None
       /\ \A t \in CeleryTasks :
             ProcessEventParse(t) =>
                 /\ events'[t.webhook_id].status \in TerminalEvent
                 /\ events'[t.webhook_id].status = "failed" =>
                       \A u \in BagToSet(tasks') :
                           u.kind = "celery" => u.webhook_id # t.webhook_id]_vars
====
